---------------------------- MODULE Spec2Model ----------------------------
(***************************************************************************)
(* Verification model of the measure-oh-sung backend services:            *)
(*   - phase / step judgement (measurement_service.py, inspection.py,      *)
(*     power_meter.py)                                                     *)
(*   - SerialCommunicationService (serial_communication.py)                *)
(*   - wt310_sequential_inspection (wt310_power_meter.py)                  *)
(*   - InspectionService + PowerMeterService + SafetyInspectionService     *)
(*   - InspectionRoutineService + MeasurementService                       *)
(* Each component has its own specification over the shared variables;    *)
(* the variables of the other components keep their initial values.       *)
(***************************************************************************)
EXTENDS Integers, Sequences, FiniteSets, TLC

(***************************************************************************)
(* Bounds of the model.                                                    *)
(***************************************************************************)
MaxSamples == 3     \* longest sample list drawn for the judgement functions
MaxValue == 3       \* sample values and limits range over 0..MaxValue

\* Python's None among numeric readings (outside Values)
None == 0 - 1

Values == 0..MaxValue
Readings == Values \cup {None}

RECURSIVE SeqSum(_)
SeqSum(s) == IF s = <<>> THEN 0 ELSE Head(s) + SeqSum(Tail(s))

RECURSIVE SeqsUpTo(_, _)
SeqsUpTo(S, n) ==
    IF n = 0 THEN {<<>>}
    ELSE LET shorter == SeqsUpTo(S, n - 1)
         IN  shorter \cup {Append(s, x) : s \in {q \in shorter : Len(q) = n - 1}, x \in S}

SeqToSet(s) == {s[i] : i \in 1..Len(s)}

\* message_queue.put of app.websocket.queue (the Event Channel): the message
\* is appended; consumers get the messages in the order they were put.
message_queue_put(queue, message) == Append(queue, message)

(***************************************************************************)
(* Variables.                                                              *)
(***************************************************************************)
VARIABLES
    \* --- judgement functions (pure) ---
    j_pc,            \* "input" | "judged"
    j_reads,         \* what the instrument answered per read: a value or None
    j_lower,         \* lower limit of the phase / step
    j_upper,         \* upper limit of the phase / step
    j_phase_result,  \* MeasurementService.complete_phase_measurement result
    j_step_result,   \* InspectionService._calculate_step_results result of the step
    \* --- SerialCommunicationService (serial_communication.py) ---
    connections,     \* self.connections: device id -> "absent" | "open"
    lock,            \* self.lock: the thread holding it, or NoThread
    th_pc,           \* position of each calling thread
    th_dev,          \* device id argument of the call in progress
    th_ret,          \* return value of the thread's last finished call
    \* --- wt310_sequential_inspection (wt310_power_meter.py) ---
    wt_pc,           \* "start" | "init" | "collect" | "wait" | "done"
    wt_i,            \* index of the phase of the current loop iteration
    wt_cfg,          \* setup exchanges of wt310_init_active_power done so far
    wt_vs,           \* vs of the running wt310_collect_for
    wt_results,      \* results: per phase "none" | "ok" | "error" and its values
    wt_calls,        \* the callbacks made, in order: <<"start" | "complete", i>>
    wt_waited,       \* phases after which the inter-phase sleep has elapsed
    wt_faults,       \* phases in which the transport raised an error (history)
    wt_unanswered,   \* phases with a setup exchange that got no response (history)
    wt_reads,        \* what each read of the phase's collection returned (history)
    \* --- InspectionService, PowerMeterService, SafetyInspectionService ---
    i_status,        \* InspectionService.status
    i_session_id,    \* InspectionService.current_session_id (0: None)
    i_barcode,       \* InspectionService.current_barcode (0: None)
    i_model_id,      \* InspectionService.current_model_id (0: None)
    i_power_results, \* InspectionService.power_results
    i_safety_results,\* InspectionService.safety_results
    pm_connected,    \* PowerMeterService.is_connected
    sf_running,      \* SafetyInspectionService.is_running
    sf_session_id,   \* SafetyInspectionService.current_session_id (0: None)
    run_pc,          \* position of each start request's coroutine
    run_sid,         \* session id generated by the run (0: none yet)
    run_n,           \* measurements collected by the run's measuring loop
    i_events,        \* messages put on message_queue, in order
    i_next,          \* next start request (runs are numbered in arrival order)
    i_stops,         \* stop requests served
    i_aborted,       \* runs that were executing when a stop was served (history)
    \* --- InspectionRoutineService and MeasurementService ---
    rt_status,       \* InspectionRoutineService.status
    current_session, \* InspectionRoutineService.current_session (0: None)
    active_tasks,    \* InspectionRoutineService.active_tasks
    ses_current_phase, \* per session dict: session["current_phase"] (0: None)
    ses_results,     \* per session dict: session["results"][phase]["result"]
    active_measurements, \* MeasurementService.active_measurements
    tk_pc,           \* position of each _run_inspection_routine task
    tk_session,      \* the task's local `session` of _execute_measurement_phase
    tk_phase,        \* the phase the task is in (0: none yet)
    tk_iter,         \* iterations of the task's current measuring loop
    mq,              \* phase_completed and measurement_session_completed messages
                     \* put on message_queue, in order (other types not recorded)
    scan_result,     \* what process_barcode_scan returned to each request
    scan_while_active, \* requests that arrived while a task was alive (history)
    rt_next,         \* next barcode scan request (numbered in arrival order)
    rt_listens,      \* start_barcode_listening requests served
    rt_stops,        \* stop_inspection requests served
    enum_format,     \* what f"{phase}" yields for a (str, Enum) member
    save_calls,      \* crud.measurement.create calls made for each session (history)
    save_raised,     \* tasks in which crud.measurement.create raised (history)
    \* --- device endpoints (endpoints/serial_communication.py) and the database ---
    connection_status, \* Device.connection_status in the database, per device id
    ep_scan,         \* outcome of the last connected-devices check of a barcode scan
    \* --- wt310_read_active_power_once / wt310_collect_latest_with_wait parsing ---
    p_pc,            \* "input" | "read"
    p_resp,          \* the response line: its comma-separated fields (<<>>: empty)
    p_ascii,         \* the ascii_format argument
    p_once,          \* what wt310_read_active_power_once returns
    p_latest,         \* the v wt310_collect_latest_with_wait appends for the response
    \* --- the event channel: message_queue, its publishers and sse_generator ---
    ch_kind,         \* how message_queue.put waits: "blocking" | "coroutine"
    ch_queue,        \* events in message_queue
    ch_published,    \* events handed to message_queue.put, in order
    ch_delivered,    \* what sse_generator has yielded, in order (0: not an event)
    ch_waiting,      \* event of the put that waits for room (0: none)
    loop_blocked,    \* the event-loop thread is blocked inside a put
    ch_raised,       \* `await message_queue.put(...)` calls that raised TypeError
    ch_next,          \* next event (numbered in emission order)
    \* --- the coroutine serial service (services/serial.py) on one event loop ---
    as_connections,  \* serial.py connections: per device "absent" | "open" | "closed"
    as_lock,         \* coroutine that holds self.lock (0: free)
    co_pc,           \* per coroutine: "idle" | "sc_sleep" | "rd_executor" | "blocked"
    co_ret,          \* value the coroutine's last call returned
    co_pm,           \* the coroutine is inside read_power_meter_data
    co_calls,        \* calls started
    loop_waits,       \* coroutine whose `with self.lock` blocks the loop thread (0: none)
    \* --- one _query_scpi exchange (wt310_power_meter.py 89-107) ---
    q_pc,            \* "idle" | "written" | "backoff" | "returned" | "raised"
    q_outcomes,      \* what each _read_line attempt of the exchange met, in order
    q_result,        \* what _query_scpi returned: "none" | "line" | "partial" | "empty"
    q_backoffs,      \* time.sleep(0.1) calls between the attempts of the exchange
    q_n,              \* exchanges started
    \* --- wt310_collect_for, polling method (wt310_power_meter.py 262-291) ---
    pl_pc,           \* "loop" | "done"
    pl_duration,     \* duration_sec, in ticks
    pl_interval,     \* interval_sec, in ticks
    pl_now,          \* time.time() - t0, in ticks
    pl_next_t,       \* next_t - t0
    pl_ts,            \* ts: the elapsed time of each sample
    \* --- a collection run with the event-synchronized method ---
    sy_entry,        \* "collect_latest_with_wait" | "collect_for"
    sy_pc,           \* "begin" | "loop" | "waited" | "queried" | "done" | "failed"
    sy_wire,         \* the commands written to the port, in order
    sy_vs,            \* vs: the values stored
    \* --- the event-loop thread and the instrument exchanges of a session ---
    io_thread,       \* thread in a serial write/read: "none" | "worker" | "loop"
    io_source,       \* code that issued the exchange in progress or the last one
    io_exchanges,    \* exchanges started
    lp_served,        \* other requests the event loop has served
    \* --- the WebSocket connection managers ---
    ws_manager,         \* "endpoints" (api/v1/endpoints/websocket.py) | "connection_manager"
    active_connections, \* ConnectionManager.active_connections
    ws_socket,          \* per connection: "none" | "open" | "closed" | "gone"
    bc_pc,              \* broadcast: "idle" | "sending" | "done"
    bc_idx,             \* elements the list iterator of broadcast has consumed
    bc_cur,             \* connection whose send_text broadcast awaits (0: none)
    disconnected,       \* the local list `disconnected` of broadcast
    bc_start,           \* history: connections active when the broadcast started
    bc_attempted,       \* history: connections whose send_text was called
    bc_succeeded,       \* history: connections whose send_text returned
    bc_left,            \* history: connections disconnected by their handler since
    bc_count,           \* broadcasts started
    dc_raised           \* history: a disconnect raised ValueError

judgeVars == <<j_pc, j_reads, j_lower, j_upper, j_phase_result, j_step_result>>
serVars == <<connections, lock, th_pc, th_dev, th_ret>>
wtVars == <<wt_pc, wt_i, wt_cfg, wt_vs, wt_results, wt_calls, wt_waited, wt_faults,
            wt_unanswered, wt_reads>>
inspVars == <<i_status, i_session_id, i_barcode, i_model_id, i_power_results,
              i_safety_results, pm_connected, sf_running, sf_session_id,
              run_pc, run_sid, run_n, i_events, i_next, i_stops, i_aborted>>
rtVars == <<rt_status, current_session, active_tasks, ses_current_phase,
            ses_results, active_measurements, tk_pc, tk_session, tk_phase,
            tk_iter, mq, scan_result, scan_while_active, rt_next,
            rt_listens, rt_stops, enum_format, save_calls, save_raised>>
devVars == <<connection_status, ep_scan>>
parseVars == <<p_pc, p_resp, p_ascii, p_once, p_latest>>
chanVars == <<ch_kind, ch_queue, ch_published, ch_delivered, ch_waiting, loop_blocked, ch_raised, ch_next>>
asVars == <<as_connections, as_lock, co_pc, co_ret, co_pm, co_calls, loop_waits>>
qVars == <<q_pc, q_outcomes, q_result, q_backoffs, q_n>>
pollVars == <<pl_pc, pl_duration, pl_interval, pl_now, pl_next_t, pl_ts>>
syncVars == <<sy_entry, sy_pc, sy_wire, sy_vs>>
loopVars == <<io_thread, io_source, io_exchanges, lp_served>>
wsVars == <<ws_manager, active_connections, ws_socket, bc_pc, bc_idx, bc_cur, disconnected, bc_start, bc_attempted, bc_succeeded, bc_left, bc_count, dc_raised>>
vars == <<judgeVars, serVars, wtVars, inspVars, rtVars, devVars, parseVars, chanVars, asVars, qVars, pollVars, syncVars, loopVars, wsVars>>

\* What the actions of one component leave alone: the other components.
FrameJudge == UNCHANGED <<serVars, wtVars, inspVars, rtVars, devVars, parseVars, chanVars, asVars, qVars, pollVars, syncVars, loopVars, wsVars>>
FrameSerial == UNCHANGED <<judgeVars, wtVars, inspVars, rtVars, devVars, parseVars, chanVars, asVars, qVars, pollVars, syncVars, loopVars, wsVars>>
FrameWt == UNCHANGED <<judgeVars, serVars, inspVars, rtVars, devVars, parseVars, chanVars, asVars, qVars, pollVars, syncVars, loopVars, wsVars>>
FrameInsp == UNCHANGED <<judgeVars, serVars, wtVars, rtVars, devVars, parseVars, chanVars, asVars, qVars, pollVars, syncVars, loopVars, wsVars>>
FrameRoutine == UNCHANGED <<judgeVars, serVars, wtVars, inspVars, devVars, parseVars, chanVars, asVars, qVars, pollVars, syncVars, loopVars, wsVars>>
FrameDevice == UNCHANGED <<judgeVars, wtVars, inspVars, rtVars, parseVars, chanVars, asVars, qVars, pollVars, syncVars, loopVars, wsVars>>
FrameParse == UNCHANGED <<judgeVars, serVars, wtVars, inspVars, rtVars, devVars, chanVars, asVars, qVars, pollVars, syncVars, loopVars, wsVars>>
FrameChannel == UNCHANGED <<judgeVars, serVars, wtVars, inspVars, rtVars, devVars, parseVars, asVars, qVars, pollVars, syncVars, loopVars, wsVars>>
FrameAsyncSerial == UNCHANGED <<judgeVars, serVars, wtVars, inspVars, rtVars, devVars, parseVars, chanVars, qVars, pollVars, syncVars, loopVars, wsVars>>
FrameQuery == UNCHANGED <<judgeVars, serVars, wtVars, inspVars, rtVars, devVars, parseVars, chanVars, asVars, pollVars, syncVars, loopVars, wsVars>>
FramePoll == UNCHANGED <<judgeVars, serVars, wtVars, inspVars, rtVars, devVars, parseVars, chanVars, asVars, qVars, syncVars, loopVars, wsVars>>
FrameSync == UNCHANGED <<judgeVars, serVars, wtVars, inspVars, rtVars, devVars, parseVars, chanVars, asVars, qVars, pollVars, loopVars, wsVars>>
FrameLoop == UNCHANGED <<judgeVars, serVars, wtVars, inspVars, rtVars, devVars, parseVars, chanVars, asVars, qVars, pollVars, syncVars, wsVars>>
FrameWs == UNCHANGED <<judgeVars, serVars, wtVars, inspVars, rtVars, devVars, parseVars, chanVars, asVars, qVars, pollVars, syncVars, loopVars>>

(***************************************************************************)
(* Idle states of the components (what a specification that does not run a *)
(* component leaves it in).                                                *)
(***************************************************************************)
MaxThreads == 2     \* threads calling into the serial service
MaxDevices == 2     \* device ids

MaxTicks == 2       \* reads of one wt310_collect_for run
MaxWtValue == 1     \* values the WT310 answers: 0..MaxWtValue
NPhases == 3        \* phases P1, P2, P3
InitExchanges == 5  \* setup exchanges of wt310_init_active_power

MaxRuns == 3        \* start requests to the InspectionService
MaxMeasure == 2     \* iterations of one continuous-measurement loop
MaxStops == 2       \* stop requests to the InspectionService

MaxScans == 2       \* barcode scan requests to the InspectionRoutineService
MaxIter == 2        \* iterations of one measuring loop of a phase
MaxListens == 2     \* start_barcode_listening requests
MaxRtStops == 1     \* stop_inspection requests to the InspectionRoutineService
MaxSaveFaults == 1  \* crud.measurement.create calls that raise
MaxCoros == 2       \* coroutines of the event loop that use services/serial.py
MaxAsyncCalls == 3  \* calls of the coroutine serial service
MaxQueries == 2     \* _query_scpi exchanges in a row
MaxDuration == 4    \* duration_sec of a polling collection, in ticks
MaxInterval == 2    \* interval_sec, in ticks
MaxLatency == 3     \* time one read takes, in ticks
MaxSyncIters == 3   \* loop turns of an event-synchronized collection
MaxExchanges == 4   \* instrument exchanges of a session
MaxServed == 4      \* other requests served by the event loop
MaxConns == 3       \* WebSocket connections
MaxBroadcasts == 2  \* broadcasts

Threads == 1..MaxThreads
Coros == 1..MaxCoros
Runs == 1..MaxRuns
Scans == 1..MaxScans
PhaseIdx == 1..NPhases
WtValues == 0..MaxWtValue
Devices == 1..MaxDevices
NoThread == 0

JudgeIdle ==
    /\ j_pc = "input"
    /\ j_reads = <<>>
    /\ j_lower = 0
    /\ j_upper = 0
    /\ j_phase_result = "NONE"
    /\ j_step_result = "NONE"

\* wt310_sequential_inspection before its loop (line 396: results = {})
WtIdle ==
    /\ wt_pc = "start"
    /\ wt_i = 1
    /\ wt_cfg = 0
    /\ wt_vs = <<>>
    /\ wt_results = [i \in PhaseIdx |-> [status |-> "none", values |-> <<>>]]
    /\ wt_calls = <<>>
    /\ wt_waited = {}
    /\ wt_faults = {}
    /\ wt_unanswered = {}
    /\ wt_reads = <<>>

\* inspection.py __init__ (34-40), power_meter.py __init__ (18-20),
\* safety.py __init__ (23-27); no request has arrived yet.
InspIdle ==
    /\ i_status = "IDLE"
    /\ i_session_id = 0
    /\ i_barcode = 0
    /\ i_model_id = 0
    /\ i_power_results = "None"
    /\ i_safety_results = "None"
    /\ pm_connected = FALSE
    /\ sf_running = FALSE
    /\ sf_session_id = 0
    /\ run_pc = [r \in Runs |-> "new"]
    /\ run_sid = [r \in Runs |-> 0]
    /\ run_n = [r \in Runs |-> 0]
    /\ i_events = <<>>
    /\ i_next = 1
    /\ i_stops = 0
    /\ i_aborted = {}

\* serial_communication.py __init__ (lines 16-19)
AbsentMeasurement ==
    [present |-> FALSE, current_phase |-> 0,
     status |-> [p \in PhaseIdx |-> "pending"],
     data |-> [p \in PhaseIdx |-> <<>>],
     result |-> [p \in PhaseIdx |-> "none"]]

RoutineIdle ==
    /\ rt_status = "IDLE"
    /\ current_session = 0
    /\ active_tasks = {}
    /\ ses_current_phase = [s \in Scans |-> 0]
    /\ ses_results = [s \in Scans |-> [p \in PhaseIdx |-> "none"]]
    /\ active_measurements = [s \in Scans |-> AbsentMeasurement]
    /\ tk_pc = [t \in Scans |-> "none"]
    /\ tk_session = [t \in Scans |-> 0]
    /\ tk_phase = [t \in Scans |-> 0]
    /\ tk_iter = [t \in Scans |-> 0]
    /\ mq = <<>>
    /\ scan_result = [k \in Scans |-> "none"]
    /\ scan_while_active = {}
    /\ rt_next = 1
    /\ rt_listens = 0
    /\ rt_stops = 0
    /\ enum_format = "value"
    /\ save_calls = [s \in Scans |-> 0]
    /\ save_raised = {}

NoResult == [kind |-> "none", val |-> 0]

ParseIdle ==
    /\ p_pc = "input"
    /\ p_resp = <<>>
    /\ p_ascii = TRUE
    /\ p_once = NoResult
    /\ p_latest = NoResult

ChannelIdle ==
    /\ ch_kind = "blocking"
    /\ ch_queue = <<>>
    /\ ch_published = <<>>
    /\ ch_delivered = <<>>
    /\ ch_waiting = 0
    /\ loop_blocked = FALSE
    /\ ch_raised = 0
    /\ ch_next = 1

AsyncSerialIdle ==
    /\ as_connections = [d \in Devices |-> "absent"]
    /\ as_lock = 0
    /\ co_pc = [c \in Coros |-> "idle"]
    /\ co_ret = [c \in Coros |-> "none"]
    /\ co_pm = [c \in Coros |-> FALSE]
    /\ co_calls = 0
    /\ loop_waits = 0

QueryIdle ==
    /\ q_pc = "idle"
    /\ q_outcomes = <<>>
    /\ q_result = "none"
    /\ q_backoffs = 0
    /\ q_n = 0

PollIdle ==
    /\ pl_pc = "loop"
    /\ pl_duration = 1
    /\ pl_interval = 1
    /\ pl_now = 0
    /\ pl_next_t = 0
    /\ pl_ts = <<>>

SyncIdle ==
    /\ sy_entry = "collect_for"
    /\ sy_pc = "begin"
    /\ sy_wire = <<>>
    /\ sy_vs = <<>>

LoopIdle ==
    /\ io_thread = "none"
    /\ io_source = "none"
    /\ io_exchanges = 0
    /\ lp_served = 0

WsIdle ==
    /\ ws_manager = "endpoints"
    /\ active_connections = <<>>
    /\ ws_socket = [c \in 1..MaxConns |-> "none"]
    /\ bc_pc = "idle"
    /\ bc_idx = 0
    /\ bc_cur = 0
    /\ disconnected = <<>>
    /\ bc_start = {}
    /\ bc_attempted = {}
    /\ bc_succeeded = {}
    /\ bc_left = {}
    /\ bc_count = 0
    /\ dc_raised = FALSE

DeviceIdle ==
    /\ connection_status = [d \in Devices |-> "DISCONNECTED"]
    /\ ep_scan = "none"

SerialIdle ==
    /\ connections = [d \in Devices |-> "absent"]
    /\ lock = NoThread
    /\ th_pc = [t \in Threads |-> "idle"]
    /\ th_dev = [t \in Threads |-> 1]
    /\ th_ret = [t \in Threads |-> "none"]


(***************************************************************************)
(* Judgement of a phase / step.                                            *)
(***************************************************************************)

\* inspection_routine.py _execute_measurement_phase: only a non-empty answer
\* is converted and handed to add_measurement_data; a read without an answer
\* adds nothing to the phase's data list.
RoutineData(reads) == SelectSeq(reads, LAMBDA r : r # None)

\* measurement_service.py complete_phase_measurement: the result of the phase
\* from the collected values and the limits.
complete_phase_measurement(values, lower_limit, upper_limit) ==
    IF values # <<>>
    THEN IF \E i \in 1..Len(values) :
               values[i] < lower_limit \/ values[i] > upper_limit
         THEN "FAIL"
         ELSE "PASS"
    ELSE "ERROR"

\* power_meter.py measure_power: an answer that does not parse is stored as 0.0.
measure_power(resp) == IF resp = None THEN 0 ELSE resp

\* power_meter.py start_continuous_measurement: one measurement record per
\* loop iteration (only the power field is judged).
PowerMeasurements(reads) == [i \in 1..Len(reads) |-> measure_power(reads[i])]

\* inspection.py _calculate_step_results, for one step: no result at all
\* without measurements, otherwise the average power against the limits
\* (lower <= sum/len <= upper, compared without division).
calculate_step_result(lower_limit, upper_limit, measurements) ==
    IF measurements = <<>>
    THEN "NONE"
    ELSE IF /\ lower_limit * Len(measurements) <= SeqSum(measurements)
            /\ SeqSum(measurements) <= upper_limit * Len(measurements)
         THEN "PASS"
         ELSE "FAIL"

InitJudge ==
    /\ j_pc = "input"
    /\ j_reads \in SeqsUpTo(Readings, MaxSamples)
    /\ j_lower \in Values
    /\ j_upper \in Values
    /\ j_lower <= j_upper
    /\ j_phase_result = "NONE"
    /\ j_step_result = "NONE"
    /\ SerialIdle
    /\ WtIdle
    /\ InspIdle
    /\ RoutineIdle
    /\ DeviceIdle
    /\ ParseIdle
    /\ WsIdle
    /\ LoopIdle
    /\ SyncIdle
    /\ PollIdle
    /\ QueryIdle
    /\ AsyncSerialIdle
    /\ ChannelIdle

\* The phase is completed on both orchestration paths with the same reads.
JudgePhase ==
    /\ j_pc = "input"
    /\ j_pc' = "judged"
    /\ j_phase_result' =
           complete_phase_measurement(RoutineData(j_reads), j_lower, j_upper)
    /\ j_step_result' =
           calculate_step_result(j_lower, j_upper, PowerMeasurements(j_reads))
    /\ UNCHANGED <<j_reads, j_lower, j_upper>>
    /\ FrameJudge

NextJudge == JudgePhase

SpecJudge == InitJudge /\ [][NextJudge]_vars

\* The valid samples of a phase: the reads that returned a value.
ValidSamples(reads) == SelectSeq(reads, LAMBDA r : r # None)

ClaimedPass(reads, lower, upper) ==
    /\ Len(ValidSamples(reads)) > 0
    /\ \A i \in 1..Len(ValidSamples(reads)) :
          lower <= ValidSamples(reads)[i] /\ ValidSamples(reads)[i] <= upper

\* C1: for every completed phase the result is pass if and only if the phase
\* has at least one valid sample and every valid sample lies within
\* [lower, upper]; this must hold of the phase result of the measurement
\* service and of the step result of the inspection service alike.
C1_PassIffAllValidWithinLimits ==
    j_pc = "judged" =>
        /\ (j_phase_result = "PASS") <=> ClaimedPass(j_reads, j_lower, j_upper)
        /\ (j_step_result = "PASS") <=> ClaimedPass(j_reads, j_lower, j_upper)

(***************************************************************************)
(* SerialCommunicationService: one table of connections and one            *)
(* threading.Lock for all devices; callers are threads (executor workers   *)
(* of send_command_async and request handlers).                            *)
(***************************************************************************)

\* Mutation of AcquireLock: the body runs without waiting for the lock.
AcquireLock_NotExclusive(t) == lock' = t

\* `with self.lock:` entry: blocks until the (non re-entrant) lock is free.
AcquireLock(t) == lock = NoThread /\ lock' = t

\* `with self.lock:` exit, on return or on an exception leaving the block.
ReleaseLock(t) == lock' = NoThread

Return(t, value) ==
    /\ th_pc' = [th_pc EXCEPT ![t] = "idle"]
    /\ th_ret' = [th_ret EXCEPT ![t] = value]

\* send_command, lines 146-147: the call takes the lock.
SendCommandAcquire(t, d) ==
    /\ th_pc[t] = "idle"
    /\ AcquireLock(t)
    /\ th_pc' = [th_pc EXCEPT ![t] = "sc_locked"]
    /\ th_dev' = [th_dev EXCEPT ![t] = d]
    /\ UNCHANGED <<connections, th_ret>>
    /\ FrameSerial

\* send_command, lines 148-160 and 177-182: unknown device returns None;
\* otherwise the command is written and flushed, and a serial exception of
\* the write is caught and returns None.
SendCommandWrite(t) ==
    /\ th_pc[t] = "sc_locked"
    /\ \/ /\ connections[th_dev[t]] = "absent"
          /\ Return(t, "None")
          /\ ReleaseLock(t)
       \/ /\ connections[th_dev[t]] = "open"
          /\ \/ /\ th_pc' = [th_pc EXCEPT ![t] = "sc_sent"]
                /\ UNCHANGED <<lock, th_ret>>
             \/ /\ Return(t, "None")
                /\ ReleaseLock(t)
    /\ UNCHANGED <<connections, th_dev>>
    /\ FrameSerial

\* send_command, lines 162-175: after the response delay the waiting bytes
\* are read (a response, or None when nothing arrived), still under the lock.
SendCommandRead(t) ==
    /\ th_pc[t] = "sc_sent"
    /\ \E response \in {"response", "None"} : Return(t, response)
    /\ ReleaseLock(t)
    /\ UNCHANGED <<connections, th_dev>>
    /\ FrameSerial

\* connect_device, lines 35-37.
ConnectAcquire(t, d) ==
    /\ th_pc[t] = "idle"
    /\ AcquireLock(t)
    /\ th_pc' = [th_pc EXCEPT ![t] = "cd_locked"]
    /\ th_dev' = [th_dev EXCEPT ![t] = d]
    /\ UNCHANGED <<connections, th_ret>>
    /\ FrameSerial

\* connect_device, lines 39-118. For a device already in the table the body
\* calls disconnect_device, which waits for self.lock while this very call
\* holds it: the thread stays at "cd_blocked" with the lock. Otherwise the
\* port is opened: the handle is stored and True returned, or the open fails
\* (serial exception, missing port, no permission) and False is returned.
ConnectBody(t) ==
    /\ th_pc[t] = "cd_locked"
    /\ \/ /\ connections[th_dev[t]] # "absent"
          /\ th_pc' = [th_pc EXCEPT ![t] = "cd_blocked"]
          /\ UNCHANGED <<connections, lock, th_ret>>
       \/ /\ connections[th_dev[t]] = "absent"
          /\ \/ /\ connections' = [connections EXCEPT ![th_dev[t]] = "open"]
                /\ Return(t, "True")
             \/ /\ UNCHANGED connections
                /\ Return(t, "False")
          /\ ReleaseLock(t)
    /\ UNCHANGED th_dev
    /\ FrameSerial

\* disconnect_device, lines 122-123.
DisconnectAcquire(t, d) ==
    /\ th_pc[t] = "idle"
    /\ AcquireLock(t)
    /\ th_pc' = [th_pc EXCEPT ![t] = "dd_locked"]
    /\ th_dev' = [th_dev EXCEPT ![t] = d]
    /\ UNCHANGED <<connections, th_ret>>
    /\ FrameSerial

\* disconnect_device, lines 124-131.
DisconnectBody(t) ==
    /\ th_pc[t] = "dd_locked"
    /\ IF connections[th_dev[t]] # "absent"
       THEN /\ connections' = [connections EXCEPT ![th_dev[t]] = "absent"]
            /\ Return(t, "True")
       ELSE /\ UNCHANGED connections
            /\ Return(t, "False")
    /\ ReleaseLock(t)
    /\ UNCHANGED th_dev
    /\ FrameSerial

\* is_connected, lines 136-142: lock, look up, unlock.
IsConnected(t, d) ==
    /\ th_pc[t] = "idle"
    /\ lock = NoThread
    /\ th_dev' = [th_dev EXCEPT ![t] = d]
    /\ Return(t, IF connections[d] = "open" THEN "True" ELSE "False")
    /\ UNCHANGED <<connections, lock>>
    /\ FrameSerial

InitSerial == JudgeIdle /\ SerialIdle /\ WtIdle /\ InspIdle /\ RoutineIdle /\ DeviceIdle /\ ParseIdle /\ ChannelIdle /\ AsyncSerialIdle /\ QueryIdle /\ PollIdle /\ SyncIdle /\ LoopIdle /\ WsIdle

NextSerial ==
    \/ \E t \in Threads, d \in Devices : SendCommandAcquire(t, d)
    \/ \E t \in Threads : SendCommandWrite(t)
    \/ \E t \in Threads : SendCommandRead(t)
    \/ \E t \in Threads, d \in Devices : ConnectAcquire(t, d)
    \/ \E t \in Threads : ConnectBody(t)
    \/ \E t \in Threads, d \in Devices : DisconnectAcquire(t, d)
    \/ \E t \in Threads : DisconnectBody(t)
    \/ \E t \in Threads, d \in Devices : IsConnected(t, d)

SpecSerial == InitSerial /\ [][NextSerial]_vars

\* The threads whose command has been written to device d and whose
\* response has not been read yet.
InFlight(d) == {t \in Threads : th_pc[t] = "sc_sent" /\ th_dev[t] = d}

\* C10: for any single device id at most one command exchange (a write
\* followed by its read) is in flight on the device's transport at any time,
\* under any interleaving of the calling threads.
C10_OneExchangePerDevice ==
    \A d \in Devices : Cardinality(InFlight(d)) <= 1

\* An exchange is in flight on a device on which another thread has
\* completed an exchange before and a third caller targets the same device.
C10_Witness ==
    \E d \in Devices, t1, t2 \in Threads :
        /\ t1 # t2
        /\ InFlight(d) = {t1}
        /\ th_pc[t2] = "idle" /\ th_dev[t2] = d /\ th_ret[t2] = "response"

(***************************************************************************)
(* wt310_sequential_inspection: for each phase the instrument is set up,   *)
(* samples are collected, and (except after the last phase) the function   *)
(* sleeps wait_duration. The body of one loop iteration is inside a        *)
(* try/except that records an error result and goes on with the next       *)
(* iteration.                                                              *)
(***************************************************************************)

\* for-loop advance: the next iteration, or the return after the last one.
WtAdvance ==
    IF wt_i < NPhases
    THEN wt_pc' = "start" /\ wt_i' = wt_i + 1
    ELSE wt_pc' = "done" /\ wt_i' = wt_i

\* lines 401-410: on_phase_start(phase), then wt310_init_active_power begins.
WtPhaseStart ==
    /\ wt_pc = "start"
    /\ wt_calls' = Append(wt_calls, <<"start", wt_i>>)
    /\ wt_pc' = "init"
    /\ wt_cfg' = 0
    /\ wt_vs' = <<>>
    /\ wt_reads' = <<>>
    /\ UNCHANGED <<wt_i, wt_results, wt_waited, wt_faults, wt_unanswered>>
    /\ FrameWt

\* lines 127-137 with _query_scpi (89-107): one setup exchange that comes
\* back: answered, or empty after the read retries; both let the setup go on
\* (the value _query_scpi returns is not looked at).
WtInitExchange(answered) ==
    /\ wt_pc = "init"
    /\ wt_cfg < InitExchanges
    /\ wt_cfg' = wt_cfg + 1
    /\ wt_pc' = IF wt_cfg + 1 = InitExchanges THEN "collect" ELSE "init"
    /\ wt_unanswered' = IF answered THEN wt_unanswered ELSE wt_unanswered \cup {wt_i}
    /\ UNCHANGED <<wt_i, wt_vs, wt_results, wt_calls, wt_waited, wt_faults, wt_reads>>
    /\ FrameWt

\* lines 19-23, 140-142 and 467-478: the write of a setup exchange raises a
\* serial exception; wt310_init_active_power re-raises it, the except clause
\* of the loop body stores the error result and the loop goes on.
WtInitRaises ==
    /\ wt_pc = "init"
    /\ wt_cfg < InitExchanges
    /\ wt_faults' = wt_faults \cup {wt_i}
    /\ wt_results' = [wt_results EXCEPT ![wt_i] = [status |-> "error", values |-> <<>>]]
    /\ WtAdvance
    /\ UNCHANGED <<wt_cfg, wt_vs, wt_calls, wt_waited, wt_unanswered, wt_reads>>
    /\ FrameWt

\* wt310_collect_for, lines 264-291 (and 241-261): one read while time is
\* left. wt310_read_active_power_once returns a value or None; vs gets the
\* value, or 0.0 in place of None.
WtCollectRead ==
    /\ wt_pc = "collect"
    /\ Len(wt_vs) < MaxTicks
    /\ \E v \in WtValues \cup {None} :
          /\ wt_vs' = Append(wt_vs, IF v = None THEN 0 ELSE v)
          /\ wt_reads' = Append(wt_reads, v)
    /\ UNCHANGED <<wt_pc, wt_i, wt_cfg, wt_results, wt_calls, wt_waited, wt_faults, wt_unanswered>>
    /\ FrameWt

\* wt310_read_active_power_once, lines 156 and 209-211: a transport error
\* during the value query is caught there and None is returned, which
\* wt310_collect_for stores as 0.0.
WtCollectReadRaises ==
    /\ wt_pc = "collect"
    /\ Len(wt_vs) < MaxTicks
    /\ wt_vs' = Append(wt_vs, 0)
    /\ wt_reads' = Append(wt_reads, None)
    /\ wt_faults' = wt_faults \cup {wt_i}
    /\ UNCHANGED <<wt_pc, wt_i, wt_cfg, wt_results, wt_calls, wt_waited, wt_unanswered>>
    /\ FrameWt

\* lines 266-267 and 427-445: the duration has elapsed; on_phase_complete is
\* called, the result stored, and the wait follows unless the phase is last.
WtCollectEnd ==
    /\ wt_pc = "collect"
    /\ wt_calls' = Append(wt_calls, <<"complete", wt_i>>)
    /\ wt_results' = [wt_results EXCEPT ![wt_i] = [status |-> "ok", values |-> wt_vs]]
    /\ IF wt_i < NPhases
       THEN wt_pc' = "wait"
       ELSE wt_pc' = "done"
    /\ UNCHANGED <<wt_i, wt_cfg, wt_vs, wt_waited, wt_faults, wt_unanswered, wt_reads>>
    /\ FrameWt

\* lines 445-465: time.sleep(wait_duration) returns; next loop iteration.
WtWaitElapsed ==
    /\ wt_pc = "wait"
    /\ wt_waited' = wt_waited \cup {wt_i}
    /\ wt_pc' = "start"
    /\ wt_i' = wt_i + 1
    /\ UNCHANGED <<wt_cfg, wt_vs, wt_results, wt_calls, wt_faults, wt_unanswered, wt_reads>>
    /\ FrameWt

InitWt == JudgeIdle /\ SerialIdle /\ WtIdle /\ InspIdle /\ RoutineIdle /\ DeviceIdle /\ ParseIdle /\ ChannelIdle /\ AsyncSerialIdle /\ QueryIdle /\ PollIdle /\ SyncIdle /\ LoopIdle /\ WsIdle

NextWt ==
    \/ WtPhaseStart
    \/ \E answered \in BOOLEAN : WtInitExchange(answered)
    \/ WtInitRaises
    \/ WtCollectRead
    \/ WtCollectReadRaises
    \/ WtCollectEnd
    \/ WtWaitElapsed

SpecWt == InitWt /\ [][NextWt]_vars

WtStarted(i) == \E k \in 1..Len(wt_calls) : wt_calls[k] = <<"start", i>>

\* C7: when a driver or connection error occurs during a phase (setup or
\* sample read), the session ends in Error and no later phase of the session
\* is started; the failed phase is never recorded as a good result.
C7_ErrorHaltsSession ==
    \A i \in wt_faults :
        /\ wt_results[i].status # "ok"
        /\ \A j \in PhaseIdx : j > i => ~WtStarted(j)

(***************************************************************************)
(* InspectionService with PowerMeterService and SafetyInspectionService.   *)
(* Every start request is a coroutine on the event loop; a step of the     *)
(* model is the code a coroutine runs between two suspensions              *)
(* (asyncio.sleep). message_queue.put returns without suspending while the *)
(* queue has room. Session ids are time stamps, taken to be distinct: run  *)
(* r generates session id r and carries barcode r.                         *)
(***************************************************************************)

Event(type, sid, run) == [type |-> type, sid |-> sid, run |-> run]

Executing(r) == run_pc[r] \in {"measuring", "safety1", "safety2", "safety3"}

\* inspection.py 113-117 / 146-150: the except clause of a start request.
ErrorEvent(r) == Event("inspection_error", 0, r)

\* power_meter.py 180-181 with inspection.py 95-111: the measuring loop has
\* ended (time elapsed, or `break` on an exception); statistics are stored,
\* inspection_completed is sent with the current session id (after the
\* messages `before` already holds) and the status becomes COMPLETED.
ContinuousFinish(r, n, sid, before) ==
    /\ i_power_results' = IF n = 0 THEN "no_data" ELSE "stats"
    /\ i_events' = message_queue_put(before, Event("inspection_completed", sid, r))
    /\ i_status' = "COMPLETED"
    /\ run_pc' = [run_pc EXCEPT ![r] = "done"]
    /\ run_n' = [run_n EXCEPT ![r] = n]

\* start_continuous_inspection, lines 58-93 and 113-117, up to the first
\* suspension (the asyncio.sleep of the measuring loop, power_meter.py 175).
ContinuousBegin(r) ==
    /\ r = i_next
    /\ run_pc[r] = "new"
    /\ i_next' = i_next + 1
    /\ \/ \* line 59-60: busy; the except clause sets ERROR and reports
          /\ i_status # "IDLE"
          /\ i_status' = "ERROR"
          /\ i_events' = message_queue_put(i_events, ErrorEvent(r))
          /\ run_pc' = [run_pc EXCEPT ![r] = "failed"]
          /\ UNCHANGED <<i_session_id, i_barcode, i_model_id, i_power_results,
                         run_sid, run_n>>
       \/ \* lines 65-77: state is set, then a lookup fails
          /\ i_status = "IDLE"
          /\ i_session_id' = r /\ i_barcode' = r /\ i_model_id' = 1
          /\ run_sid' = [run_sid EXCEPT ![r] = r]
          /\ i_status' = "ERROR"
          /\ i_events' = message_queue_put(i_events, ErrorEvent(r))
          /\ run_pc' = [run_pc EXCEPT ![r] = "failed"]
          /\ UNCHANGED <<i_power_results, run_n>>
       \/ \* lines 80-93 with power_meter.py 157-158: power meter not connected
          /\ i_status = "IDLE"
          /\ ~pm_connected
          /\ i_session_id' = r /\ i_barcode' = r /\ i_model_id' = 1
          /\ run_sid' = [run_sid EXCEPT ![r] = r]
          /\ i_status' = "ERROR"
          /\ i_events' = message_queue_put(message_queue_put(i_events, Event("inspection_started", r, r)), ErrorEvent(r))
          /\ run_pc' = [run_pc EXCEPT ![r] = "failed"]
          /\ UNCHANGED <<i_power_results, run_n>>
       \/ \* power_meter.py 165-175: first measurement taken, loop sleeps
          /\ i_status = "IDLE"
          /\ pm_connected
          /\ i_session_id' = r /\ i_barcode' = r /\ i_model_id' = 1
          /\ run_sid' = [run_sid EXCEPT ![r] = r]
          /\ i_status' = "RUNNING_POWER"
          /\ i_events' = message_queue_put(i_events, Event("inspection_started", r, r))
          /\ run_pc' = [run_pc EXCEPT ![r] = "measuring"]
          /\ run_n' = [run_n EXCEPT ![r] = 1]
          /\ UNCHANGED i_power_results
       \/ \* power_meter.py 165, 176-178: no time left, or the first
          \* measure_all raises and the loop breaks
          /\ i_status = "IDLE"
          /\ pm_connected
          /\ i_session_id' = r /\ i_barcode' = r /\ i_model_id' = 1
          /\ run_sid' = [run_sid EXCEPT ![r] = r]
          /\ ContinuousFinish(r, 0, r,
                message_queue_put(i_events, Event("inspection_started", r, r)))
    /\ UNCHANGED <<i_safety_results, pm_connected, sf_running, sf_session_id,
                   i_stops, i_aborted>>
    /\ FrameInsp

\* power_meter.py 165-178: the sleep of the measuring loop returns; another
\* measurement is taken and the loop sleeps again.
ContinuousMeasure(r) ==
    /\ run_pc[r] = "measuring"
    /\ run_n[r] < MaxMeasure
    /\ pm_connected
    /\ run_n' = [run_n EXCEPT ![r] = run_n[r] + 1]
    /\ UNCHANGED <<i_status, i_session_id, i_barcode, i_model_id, i_power_results,
                   i_safety_results, pm_connected, sf_running, sf_session_id,
                   run_pc, run_sid, i_events, i_next, i_stops, i_aborted>>
    /\ FrameInsp

\* power_meter.py 165 and 176-181, inspection.py 95-111: the loop ends (time
\* elapsed, or measure_all raised and the loop breaks) and the run completes.
ContinuousEnd(r) ==
    /\ run_pc[r] = "measuring"
    /\ ContinuousFinish(r, run_n[r], i_session_id, i_events)
    /\ UNCHANGED <<i_session_id, i_barcode, i_model_id, i_safety_results,
                   pm_connected, sf_running, sf_session_id, run_sid, i_next,
                   i_stops, i_aborted>>
    /\ FrameInsp

\* inspection.py start_safety_inspection 126-141 with safety.py 45-65 and
\* 80-88, up to the first suspension (the sleep of the first safety test).
SafetyBegin(r) ==
    /\ r = i_next
    /\ run_pc[r] = "new"
    /\ i_next' = i_next + 1
    /\ \/ \* inspection.py 127-128 and 146-150: busy
          /\ i_status # "IDLE"
          /\ i_status' = "ERROR"
          /\ i_events' = message_queue_put(i_events, ErrorEvent(r))
          /\ run_pc' = [run_pc EXCEPT ![r] = "failed"]
          /\ UNCHANGED <<i_session_id, i_barcode, i_model_id, run_sid,
                         sf_running, sf_session_id>>
       \/ \* safety.py 46-47, 80-88: the safety service is still running
          /\ i_status = "IDLE"
          /\ sf_running
          /\ i_session_id' = r /\ i_barcode' = r /\ i_model_id' = 1
          /\ run_sid' = [run_sid EXCEPT ![r] = r]
          /\ sf_running' = FALSE
          /\ sf_session_id' = 0
          /\ i_status' = "ERROR"
          /\ i_events' = message_queue_put(message_queue_put(i_events, Event("safety_inspection_error", 0, r)), ErrorEvent(r))
          /\ run_pc' = [run_pc EXCEPT ![r] = "failed"]
       \/ \* safety.py 52-65: started, first test sleeps
          /\ i_status = "IDLE"
          /\ ~sf_running
          /\ i_session_id' = r /\ i_barcode' = r /\ i_model_id' = 1
          /\ run_sid' = [run_sid EXCEPT ![r] = r]
          /\ sf_running' = TRUE
          /\ sf_session_id' = r
          /\ i_status' = "RUNNING_SAFETY"
          /\ i_events' = message_queue_put(i_events, Event("safety_inspection_started", r, r))
          /\ run_pc' = [run_pc EXCEPT ![r] = "safety1"]
    /\ UNCHANGED <<i_power_results, i_safety_results, pm_connected, run_n,
                   i_stops, i_aborted>>
    /\ FrameInsp

\* safety.py 95-97: the sleep of one safety test returns, the next test sleeps.
SafetyTest(r) ==
    /\ run_pc[r] \in {"safety1", "safety2"}
    /\ run_pc' = [run_pc EXCEPT ![r] = IF run_pc[r] = "safety1" THEN "safety2" ELSE "safety3"]
    /\ UNCHANGED <<i_status, i_session_id, i_barcode, i_model_id, i_power_results,
                   i_safety_results, pm_connected, sf_running, sf_session_id,
                   run_sid, run_n, i_events, i_next, i_stops, i_aborted>>
    /\ FrameInsp

\* safety.py 100-108, 67-88 and inspection.py 139-144: the last test returns;
\* the overall result of the three fixed readings is FAIL (insulation 0.051
\* below its limit 1.0); the result is saved, safety_inspection_completed is
\* sent with the safety service's current session id, the safety service is
\* reset and the InspectionService becomes COMPLETED.
SafetyEnd(r) ==
    /\ run_pc[r] = "safety3"
    /\ i_events' = message_queue_put(i_events, Event("safety_inspection_completed", sf_session_id, r))
    /\ sf_running' = FALSE
    /\ sf_session_id' = 0
    /\ i_safety_results' = "FAIL"
    /\ i_status' = "COMPLETED"
    /\ run_pc' = [run_pc EXCEPT ![r] = "done"]
    /\ UNCHANGED <<i_session_id, i_barcode, i_model_id, i_power_results,
                   pm_connected, run_sid, run_n, i_next, i_stops, i_aborted>>
    /\ FrameInsp

\* inspection.py stop_inspection 272-290 with safety.py stop_inspection
\* 236-243: nothing is done to a running power measurement; a running safety
\* inspection only has its flag cleared; the status becomes IDLE and
\* inspection_stopped is sent with the current session id.
StopInspection ==
    /\ i_stops < MaxStops
    /\ i_stops' = i_stops + 1
    /\ IF i_status = "RUNNING_SAFETY" /\ sf_running
       THEN /\ sf_running' = FALSE
            /\ i_events' = message_queue_put(
                  message_queue_put(i_events, Event("safety_inspection_stopped", sf_session_id, 0)),
                  Event("inspection_stopped", i_session_id, 0))
       ELSE /\ UNCHANGED sf_running
            /\ i_events' = message_queue_put(i_events, Event("inspection_stopped", i_session_id, 0))
    /\ i_status' = "IDLE"
    /\ i_aborted' = i_aborted \cup {r \in Runs : Executing(r)}
    /\ UNCHANGED <<i_session_id, i_barcode, i_model_id, i_power_results,
                   i_safety_results, pm_connected, sf_session_id, run_pc,
                   run_sid, run_n, i_next>>
    /\ FrameInsp

\* power_meter.py connect 22-31 (success) and disconnect 33-38.
PowerMeterConnect ==
    /\ ~pm_connected
    /\ pm_connected' = TRUE
    /\ UNCHANGED <<i_status, i_session_id, i_barcode, i_model_id, i_power_results,
                   i_safety_results, sf_running, sf_session_id, run_pc, run_sid,
                   run_n, i_events, i_next, i_stops, i_aborted>>
    /\ FrameInsp

PowerMeterDisconnect ==
    /\ pm_connected
    /\ pm_connected' = FALSE
    /\ UNCHANGED <<i_status, i_session_id, i_barcode, i_model_id, i_power_results,
                   i_safety_results, sf_running, sf_session_id, run_pc, run_sid,
                   run_n, i_events, i_next, i_stops, i_aborted>>
    /\ FrameInsp

InitInsp == JudgeIdle /\ SerialIdle /\ WtIdle /\ InspIdle /\ RoutineIdle /\ DeviceIdle /\ ParseIdle /\ ChannelIdle /\ AsyncSerialIdle /\ QueryIdle /\ PollIdle /\ SyncIdle /\ LoopIdle /\ WsIdle

NextInsp ==
    \/ \E r \in Runs : ContinuousBegin(r)
    \/ \E r \in Runs : ContinuousMeasure(r)
    \/ \E r \in Runs : ContinuousEnd(r)
    \/ \E r \in Runs : SafetyBegin(r)
    \/ \E r \in Runs : SafetyTest(r)
    \/ \E r \in Runs : SafetyEnd(r)
    \/ StopInspection
    \/ PowerMeterConnect
    \/ PowerMeterDisconnect

SpecInsp == InitInsp /\ [][NextInsp]_vars


SessionCompleteTypes == {"inspection_completed", "safety_inspection_completed"}

CompleteEventsOf(r) ==
    {k \in DOMAIN i_events :
        i_events[k].type \in SessionCompleteTypes /\ i_events[k].run = r}

\* C5: a session that was aborted (stop_inspection returned) while its
\* measurement was in progress never publishes a session-complete event, neither
\* at the abort nor later when the interrupted measurement returns, and its
\* work never ends as a completed run.
C5_AbortedNeverCompletes ==
    \A r \in i_aborted :
        /\ CompleteEventsOf(r) = {}
        /\ run_pc[r] # "done"

\* The session an InspectionService event belongs to: the session id in the
\* payload of inspection_completed and inspection_stopped; inspection_error
\* carries no session id and belongs to the session of the request that failed.
TerminalEventsOf(s) ==
    {k \in DOMAIN i_events :
        \/ /\ i_events[k].type \in {"inspection_completed", "inspection_stopped"}
           /\ i_events[k].sid = s
        \/ /\ i_events[k].type = "inspection_error"
           /\ run_sid[i_events[k].run] = s}

\* C6: no session has two terminal events (completed, error, stopped)
\* published for it.
C6_AtMostOneTerminalEvent ==
    \A s \in Runs : Cardinality(TerminalEventsOf(s)) <= 1

\* C8: once a session has ended (completed or failed) and no inspection
\* coroutine has a step left to run, the orchestrator is Idle, so that the
\* next start request passes the busy check.
C8_IdleAfterTerminal ==
    ( /\ \E r \in Runs : run_pc[r] \in {"done", "failed"}
      /\ \A r \in Runs : ~Executing(r) )
    => i_status = "IDLE"

\* C9: a start request that fails (busy, device not connected, model or
\* settings lookup failed) leaves the status, the current session id, the
\* barcode and the model id as they were before the request.
C9_FailedStartLeavesState ==
    [][ \A r \in Runs :
          (run_pc[r] = "new" /\ run_pc'[r] = "failed")
          => /\ i_status' = i_status
             /\ i_session_id' = i_session_id
             /\ i_barcode' = i_barcode
             /\ i_model_id' = i_model_id ]_vars


(***************************************************************************)
(* InspectionRoutineService with MeasurementService.                       *)
(* process_barcode_scan creates one asyncio task per accepted scan; task k *)
(* and session k belong to scan request k (uuid session ids are distinct). *)
(* A step is the code a coroutine runs between two suspensions: the await  *)
(* of send_command_async (executor) and the awaits of asyncio.sleep.       *)
(* message_queue.put is a plain call. No websocket client is connected:    *)
(* manager.broadcast_json returns without suspending and changes nothing.  *)
(* Every                                                                   *)
(* measuring loop runs 1..MaxIter iterations and every inter-phase wait    *)
(* one countdown iteration. A cancelled task (CancelledError is not an     *)
(* Exception) runs no further code.                                        *)
(***************************************************************************)

Msg(type, sid, phase, result) ==
    [type |-> type, sid |-> sid, phase |-> phase, result |-> result]

\* model.pN_lower_limit / pN_upper_limit of the inspection model
RoutineLimits == [lower |-> 1, upper |-> 2]

\* what send_command_async yields: no usable value (None, or a response that
\* is not a number), or a value
RtReadings == {None, RoutineLimits.lower}

Alive(t) == tk_pc[t] \in {"created", "reading", "sleeping", "waiting"}

Measuring(p) == IF p = 1 THEN "MEASURING_P1"
                ELSE IF p = 2 THEN "MEASURING_P2" ELSE "MEASURING_P3"

Waiting(p) == IF p = 1 THEN "WAITING_P1_TO_P2" ELSE "WAITING_P2_TO_P3"

\* The state the routine's coroutines work on, as one value.
RtState ==
    [status |-> rt_status, cur |-> current_session, sphase |-> ses_current_phase,
     sres |-> ses_results, am |-> active_measurements, pc |-> tk_pc,
     tses |-> tk_session, tph |-> tk_phase, tit |-> tk_iter, mq |-> mq,
     saves |-> save_calls, sraised |-> save_raised]

RtApply(n) ==
    /\ rt_status' = n.status
    /\ current_session' = n.cur
    /\ ses_current_phase' = n.sphase
    /\ ses_results' = n.sres
    /\ active_measurements' = n.am
    /\ tk_pc' = n.pc
    /\ tk_session' = n.tses
    /\ tk_phase' = n.tph
    /\ tk_iter' = n.tit
    /\ mq' = n.mq
    /\ save_calls' = n.saves
    /\ save_raised' = n.sraised

\* inspection_routine.py 168-169 and 330-362: the except clause of the task.
handle_inspection_error(st, t) ==
    [st EXCEPT !.cur = 0,
               !.status = "IDLE",
               !.pc[t] = "error"]

\* a session completion that reports PASS whatever the phases' results are
complete_measurement_session_AlwaysPass(results) == "PASS"

\* measurement_service.py 183-210: overall result of a session.
complete_measurement_session(results) ==
    IF \A p \in PhaseIdx : results[p] = "PASS" THEN "PASS" ELSE "FAIL"

\* inspection_routine.py 182-215 with measurement_service.py 51-72: a phase
\* begins, up to the first await of send_command_async.
execute_measurement_phase(st, t, p) ==
    IF st.cur = 0
    THEN handle_inspection_error(st, t)    \* None["current_phase"]: TypeError
    ELSE
      LET s == st.cur
          st1 == [st EXCEPT !.sphase[s] = p]
      IN  IF enum_format = "member"
          THEN handle_inspection_error(st1, t)   \* getattr: AttributeError
          ELSE
            LET st2 == [st1 EXCEPT !.status = Measuring(p)]
            IN  IF ~st2.am[s].present
                THEN handle_inspection_error(st2, t)   \* ValueError, line 60
                ELSE [st2 EXCEPT !.am[s].current_phase = p,
                                 !.am[s].status[p] = "measuring",
                                 !.pc[t] = "reading",
                                 !.tses[t] = s,
                                 !.tph[t] = p,
                                 !.tit[t] = 1]

\* inspection_routine.py 266-290: the wait after phase p begins, up to its
\* asyncio.sleep.
wait_between_phases(st, t, p) ==
    LET st1 == [st EXCEPT !.status = Waiting(p)]
    IN  IF st1.cur = 0
        THEN handle_inspection_error(st1, t)   \* None["session_id"]: TypeError
        ELSE [st1 EXCEPT !.pc[t] = "waiting"]

\* inspection_routine.py 292-328 with measurement_service.py 183-210.
complete_inspection(st, t) ==
    LET st1 == [st EXCEPT !.status = "COMPLETED"]
    IN  IF st1.cur = 0
        THEN handle_inspection_error(st1, t)   \* None["session_id"]: TypeError
        ELSE
          LET s == st1.cur
              overall == complete_measurement_session(st1.am[s].result)
              st2 == IF st1.am[s].present
                     THEN [st1 EXCEPT
                             !.mq = message_queue_put(@, Msg("measurement_session_completed", s, 0, overall)),
                             !.am[s] = AbsentMeasurement]
                     ELSE st1
          IN  [st2 EXCEPT !.cur = 0,
                          !.status = "IDLE",
                          !.pc[t] = "done"]

\* inspection_routine.py 242-253 with measurement_service.py 104-181: the
\* measuring loop of the task's phase has ended; then what follows the phase
\* in _run_inspection_routine, up to the next suspension.  `saved` tells
\* whether crud.measurement.create (line 155) returned or raised.
phase_end(st, t, saved) ==
    LET s == st.tses[t]
        p == st.tph[t]
    IN  IF ~st.am[s].present
        THEN handle_inspection_error(st, t)   \* None.id: AttributeError
        ELSE IF ~saved
        THEN handle_inspection_error(
                 [st EXCEPT !.saves[s] = @ + 1, !.sraised = @ \cup {t}], t)
        ELSE
          LET result == complete_phase_measurement(st.am[s].data[p],
                                RoutineLimits.lower, RoutineLimits.upper)
              st1 == [st EXCEPT !.saves[s] = @ + 1,
                                !.am[s].status[p] = "completed",
                                !.am[s].result[p] = result,
                                !.mq = message_queue_put(@, Msg("phase_completed", s, p, result)),
                                !.sres[s][p] = result]
          IN  IF p < NPhases THEN wait_between_phases(st1, t, p)
                             ELSE complete_inspection(st1, t)

\* inspection_routine.py 34-44
StartBarcodeListening ==
    /\ rt_listens < MaxListens
    /\ rt_listens' = rt_listens + 1
    /\ rt_status' = "BARCODE_READY"
    /\ UNCHANGED <<current_session, active_tasks, ses_current_phase, ses_results,
                   active_measurements, tk_pc, tk_session, tk_phase, tk_iter, mq,
                   scan_result, scan_while_active, rt_next, rt_stops, enum_format,
                   save_calls, save_raised>>
    /\ FrameRoutine

\* inspection_routine.py 46-111 with measurement_service.py 19-49
ProcessBarcodeScan(k) ==
    /\ k = rt_next
    /\ rt_next' = rt_next + 1
    /\ scan_while_active' = IF \E t \in Scans : Alive(t)
                            THEN scan_while_active \cup {k}
                            ELSE scan_while_active
    /\ \/ \* lines 54-58
          /\ rt_status # "BARCODE_READY"
          /\ scan_result' = [scan_result EXCEPT ![k] = "not_ready"]
          /\ UNCHANGED <<current_session, active_tasks, active_measurements,
                         tk_pc, mq>>
       \/ \* lines 60-82: model, settings or connected devices not found
          /\ rt_status = "BARCODE_READY"
          /\ scan_result' = [scan_result EXCEPT ![k] = "not_found"]
          /\ UNCHANGED <<current_session, active_tasks, active_measurements,
                         tk_pc, mq>>
       \/ \* lines 84-111
          /\ rt_status = "BARCODE_READY"
          /\ current_session' = k
          /\ active_measurements' =
                [active_measurements EXCEPT ![k] = [AbsentMeasurement EXCEPT !.present = TRUE]]
          /\ UNCHANGED mq
          /\ tk_pc' = [tk_pc EXCEPT ![k] = "created"]
          /\ active_tasks' = active_tasks \cup {k}
          /\ scan_result' = [scan_result EXCEPT ![k] = "accepted"]
    /\ UNCHANGED <<rt_status, ses_current_phase, ses_results, tk_session, tk_phase,
                   tk_iter, rt_listens, rt_stops, enum_format, save_calls, save_raised>>
    /\ FrameRoutine

RoutineTaskFrame ==
    /\ UNCHANGED <<active_tasks, scan_result, scan_while_active, rt_next,
                   rt_listens, rt_stops, enum_format>>
    /\ FrameRoutine

\* inspection_routine.py 113-129: the first step of a created task
RunInspectionRoutine(t) ==
    /\ tk_pc[t] = "created"
    /\ RtApply(execute_measurement_phase(RtState, t, 1))
    /\ RoutineTaskFrame

\* inspection_routine.py 211-236 with measurement_service.py 74-102: the
\* device answered; a usable value is stored; the loop sleeps
ReadReturns(t, value) ==
    /\ tk_pc[t] = "reading"
    /\ LET s == tk_session[t]
           p == tk_phase[t]
           st == RtState
           st1 == IF value # None /\ st.am[s].present
                  THEN [st EXCEPT !.am[s].data[p] = Append(@, value)]
                  ELSE st
       IN  RtApply([st1 EXCEPT !.pc[t] = "sleeping"])
    /\ RoutineTaskFrame

\* inspection_routine.py 208-211: the sleep returned, time is left
NextRead(t) ==
    /\ tk_pc[t] = "sleeping"
    /\ tk_iter[t] < MaxIter
    /\ RtApply([RtState EXCEPT !.pc[t] = "reading", !.tit[t] = @ + 1])
    /\ RoutineTaskFrame

\* inspection_routine.py 208, 242-253: the sleep returned, the time is up
PhaseEnds(t) ==
    /\ tk_pc[t] = "sleeping"
    /\ RtApply(phase_end(RtState, t, TRUE))
    /\ RoutineTaskFrame

\* the same with measurement_service.py 155 raising (the database refuses
\* the record): the exception leaves complete_phase_measurement and
\* _execute_measurement_phase and reaches inspection_routine.py 168-169
PhaseEndsSaveRaises(t) ==
    /\ tk_pc[t] = "sleeping"
    /\ active_measurements[tk_session[t]].present
    /\ Cardinality(save_raised) < MaxSaveFaults
    /\ RtApply(phase_end(RtState, t, FALSE))
    /\ RoutineTaskFrame

\* inspection_routine.py 280, 290: the wait is over; the next phase begins
WaitReturns(t) ==
    /\ tk_pc[t] = "waiting"
    /\ RtApply(execute_measurement_phase(RtState, t, tk_phase[t] + 1))
    /\ RoutineTaskFrame

\* inspection_routine.py 364-393
RoutineStopInspection ==
    /\ rt_stops < MaxRtStops
    /\ rt_stops' = rt_stops + 1
    /\ IF rt_status = "IDLE"
       THEN UNCHANGED <<rt_status, current_session, active_tasks, tk_pc>>
       ELSE /\ tk_pc' = [t \in Scans |->
                           IF t \in active_tasks /\ Alive(t) THEN "cancelled"
                           ELSE tk_pc[t]]
            /\ active_tasks' = {}
            /\ current_session' = 0
            /\ rt_status' = "IDLE"
    /\ UNCHANGED <<ses_current_phase, ses_results, active_measurements, tk_session,
                   tk_phase, tk_iter, mq, scan_result, scan_while_active, rt_next,
                   rt_listens, enum_format, save_calls, save_raised>>
    /\ FrameRoutine

InitRoutine ==
    /\ JudgeIdle /\ SerialIdle /\ WtIdle /\ InspIdle /\ DeviceIdle /\ ParseIdle /\ ChannelIdle /\ AsyncSerialIdle /\ QueryIdle /\ PollIdle /\ SyncIdle /\ LoopIdle /\ WsIdle
    /\ rt_status = "IDLE"
    /\ current_session = 0
    /\ active_tasks = {}
    /\ ses_current_phase = [s \in Scans |-> 0]
    /\ ses_results = [s \in Scans |-> [p \in PhaseIdx |-> "none"]]
    /\ active_measurements = [s \in Scans |-> AbsentMeasurement]
    /\ tk_pc = [t \in Scans |-> "none"]
    /\ tk_session = [t \in Scans |-> 0]
    /\ tk_phase = [t \in Scans |-> 0]
    /\ tk_iter = [t \in Scans |-> 0]
    /\ mq = <<>>
    /\ scan_result = [k \in Scans |-> "none"]
    /\ scan_while_active = {}
    /\ rt_next = 1
    /\ rt_listens = 0
    /\ rt_stops = 0
    /\ enum_format \in {"value", "member"}
    /\ save_calls = [s \in Scans |-> 0]
    /\ save_raised = {}

NextRoutine ==
    \/ StartBarcodeListening
    \/ \E k \in Scans : ProcessBarcodeScan(k)
    \/ \E t \in Scans : RunInspectionRoutine(t)
    \/ \E t \in Scans, value \in RtReadings : ReadReturns(t, value)
    \/ \E t \in Scans : NextRead(t)
    \/ \E t \in Scans : PhaseEnds(t)
    \/ \E t \in Scans : PhaseEndsSaveRaises(t)
    \/ \E t \in Scans : WaitReturns(t)
    \/ RoutineStopInspection

SpecRoutine == InitRoutine /\ [][NextRoutine]_vars


MeasuringTasks(s) ==
    {t \in Scans : tk_pc[t] \in {"reading", "sleeping"} /\ tk_session[t] = s}

\* C2: within one session at most one phase is measuring at any time: no two
\* measuring loops work on the same session at once.
C2_OnePhaseMeasuring ==
    \A s \in Scans : Cardinality(MeasuringTasks(s)) <= 1

\* phases of the phase_completed messages of session s in a message sequence
RECURSIVE PhasesCompleted(_, _)
PhasesCompleted(q, s) ==
    IF q = <<>> THEN <<>>
    ELSE LET rest == PhasesCompleted(Tail(q), s)
         IN  IF Head(q).type = "phase_completed" /\ Head(q).sid = s
             THEN <<Head(q).phase>> \o rest
             ELSE rest

\* C3: when the session-complete message of a session is on the queue, the
\* phase-complete messages of that session before it are exactly P1, P2, P3
\* in this order, there is none after it, and there is one session-complete
\* message only.
C3_PhaseEventsThenSessionEvent ==
    \A k \in DOMAIN mq :
        mq[k].type = "measurement_session_completed" =>
            LET s == mq[k].sid
            IN  /\ PhasesCompleted(SubSeq(mq, 1, k - 1), s) = [p \in PhaseIdx |-> p]
                /\ PhasesCompleted(SubSeq(mq, k + 1, Len(mq)), s) = <<>>
                /\ \A j \in DOMAIN mq :
                      (mq[j].type = "measurement_session_completed" /\ mq[j].sid = s)
                      => j = k

\* C4: a start request that arrives while a session's task is alive is not
\* accepted.
C4_SecondStartRejected ==
    \A k \in scan_while_active : scan_result[k] # "accepted"


\* C11: while an exchange is in progress on device A (written, response not
\* read yet), an idle caller can start an exchange, a connect, a disconnect
\* and an is-connected call on any other device B.
C11_DistinctDevicesParallel ==
    \A dA, dB \in Devices, t1, t2 \in Threads :
        (dA # dB /\ t1 \in InFlight(dA) /\ th_pc[t2] = "idle")
        => /\ ENABLED SendCommandAcquire(t2, dB)
           /\ ENABLED ConnectAcquire(t2, dB)
           /\ ENABLED DisconnectAcquire(t2, dB)
           /\ ENABLED IsConnected(t2, dB)


\* C12: the step of connect_device that finds the device id already in the
\* table ends the call with True and an open handle in the table for that
\* device (the prior handle closed and replaced), however often it is repeated.
C12_ReconnectYieldsOpenHandle ==
    [][ \A t \in Threads :
          ( /\ th_pc[t] = "cd_locked"
            /\ connections[th_dev[t]] # "absent"
            /\ th_pc'[t] # th_pc[t] )
          => /\ th_pc'[t] = "idle"
             /\ th_ret'[t] = "True"
             /\ connections'[th_dev[t]] = "open" ]_vars


(***************************************************************************)
(* The device endpoints (endpoints/serial_communication.py): synchronous   *)
(* handlers, each run by a worker thread, that call the serial service and *)
(* then write Device.connection_status to the database. The database       *)
(* outlives the process: it starts with any status per device, while the   *)
(* connection table starts empty.                                          *)
(***************************************************************************)

\* endpoints/serial_communication.py 57-82: the status written after connect_device
EndpointStatus_AlwaysConnected(success) == "CONNECTED"

EndpointStatus(success) == IF success THEN "CONNECTED" ELSE "ERROR"

\* crud/device.py 20-24: the devices a barcode scan finds connected
get_connected_devices == {d \in Devices : connection_status[d] = "CONNECTED"}

\* endpoint connect_device 29-54 into serial_service.connect_device 35-37
EndpointConnectAcquire(t, d) ==
    /\ th_pc[t] = "idle"
    /\ AcquireLock(t)
    /\ th_pc' = [th_pc EXCEPT ![t] = "ep_locked"]
    /\ th_dev' = [th_dev EXCEPT ![t] = d]
    /\ UNCHANGED <<connections, th_ret, connection_status, ep_scan>>
    /\ FrameDevice

\* serial_service.connect_device 39-118 called by the endpoint: a device id
\* already in the table blocks the call for ever (disconnect_device waits for
\* the lock the call holds); otherwise the port is opened and the handle
\* stored, or the open fails and False is returned with the table unchanged.
EndpointConnectOpen(t) ==
    /\ th_pc[t] = "ep_locked"
    /\ \/ /\ connections[th_dev[t]] # "absent"
          /\ th_pc' = [th_pc EXCEPT ![t] = "cd_blocked"]
          /\ UNCHANGED <<connections, lock, th_ret>>
       \/ /\ connections[th_dev[t]] = "absent"
          /\ \/ /\ connections' = [connections EXCEPT ![th_dev[t]] = "open"]
                /\ th_ret' = [th_ret EXCEPT ![t] = "True"]
             \/ /\ UNCHANGED connections
                /\ th_ret' = [th_ret EXCEPT ![t] = "False"]
          /\ th_pc' = [th_pc EXCEPT ![t] = "ep_update"]
          /\ ReleaseLock(t)
    /\ UNCHANGED <<th_dev, connection_status, ep_scan>>
    /\ FrameDevice

\* endpoint connect_device 57-82: the database status is written and the
\* response (success, or HTTP 400) is sent
EndpointConnectUpdate(t) ==
    /\ th_pc[t] = "ep_update"
    /\ connection_status' =
          [connection_status EXCEPT ![th_dev[t]] = EndpointStatus(th_ret[t] = "True")]
    /\ th_pc' = [th_pc EXCEPT ![t] = "idle"]
    /\ UNCHANGED <<connections, lock, th_dev, th_ret, ep_scan>>
    /\ FrameDevice

\* endpoint disconnect_device 84-101 with serial_service.disconnect_device
\* 120-134: the lock is taken, the entry removed, the lock released
EndpointDisconnect(t, d) ==
    /\ th_pc[t] = "idle"
    /\ lock = NoThread
    /\ connections' = [connections EXCEPT ![d] = "absent"]
    /\ th_dev' = [th_dev EXCEPT ![t] = d]
    /\ th_ret' = [th_ret EXCEPT ![t] = IF connections[d] # "absent" THEN "True" ELSE "False"]
    /\ th_pc' = [th_pc EXCEPT ![t] = "epd_update"]
    /\ UNCHANGED <<lock, connection_status, ep_scan>>
    /\ FrameDevice

\* endpoint disconnect_device 96-99: DISCONNECTED is written
EndpointDisconnectUpdate(t) ==
    /\ th_pc[t] = "epd_update"
    /\ connection_status' = [connection_status EXCEPT ![th_dev[t]] = "DISCONNECTED"]
    /\ th_pc' = [th_pc EXCEPT ![t] = "idle"]
    /\ UNCHANGED <<connections, lock, th_dev, th_ret, ep_scan>>
    /\ FrameDevice

\* inspection_routine.py 76-82: the connected-devices check of a barcode scan
ScanDeviceCheck ==
    /\ ep_scan' = IF get_connected_devices = {} THEN "no_connected_devices"
                                                ELSE "devices_found"
    /\ UNCHANGED <<serVars, connection_status>>
    /\ FrameDevice

InitDevice ==
    /\ JudgeIdle /\ SerialIdle /\ WtIdle /\ InspIdle /\ RoutineIdle /\ ParseIdle /\ ChannelIdle /\ AsyncSerialIdle /\ QueryIdle /\ PollIdle /\ SyncIdle /\ LoopIdle /\ WsIdle
    /\ connection_status \in [Devices -> {"DISCONNECTED", "CONNECTED", "ERROR"}]
    /\ ep_scan = "none"

NextDevice ==
    \/ \E t \in Threads, d \in Devices : EndpointConnectAcquire(t, d)
    \/ \E t \in Threads : EndpointConnectOpen(t)
    \/ \E t \in Threads : EndpointConnectUpdate(t)
    \/ \E t \in Threads, d \in Devices : EndpointDisconnect(t, d)
    \/ \E t \in Threads : EndpointDisconnectUpdate(t)
    \/ ScanDeviceCheck

SpecDevice == InitDevice /\ [][NextDevice]_vars

\* C13: the step in which the port open fails makes connect_device return
\* False and leaves no entry for the device in the table; and when the
\* endpoint has reported the failure, the device is not among the connected
\* devices a session start looks for, so that a start is rejected when no
\* other device is connected.
C13_FailedOpenNoEntryNoSession ==
    [][ \A t \in Threads :
          /\ ( /\ th_pc[t] = "ep_locked" /\ th_pc'[t] = "ep_update"
               /\ th_ret'[t] = "False" )
             => connections'[th_dev[t]] = "absent"
          /\ ( /\ th_pc[t] = "ep_update" /\ th_pc'[t] = "idle"
               /\ th_ret[t] = "False" )
             => th_dev[t] \notin {d \in Devices : connection_status'[d] = "CONNECTED"}
      ]_vars

\* A connect whose open failed has been reported by the endpoint, the table
\* has no entry for the device, and a scan has found no connected device.
C13_Witness ==
    \E t \in Threads :
        /\ th_pc[t] = "idle" /\ th_ret[t] = "False"
        /\ connections[th_dev[t]] = "absent"
        /\ connection_status[th_dev[t]] = "ERROR"
        /\ ep_scan = "no_connected_devices"


(***************************************************************************)
(* Parsing of the :NUMERIC:NORMAL:VALUE? response (wt310_power_meter.py).  *)
(* A response is the sequence of its comma-separated fields; a field is a  *)
(* token: a number in scientific notation (sign, mantissa d.dddddd held in *)
(* millionths, decimal exponent), NAN or INF with a sign and in either     *)
(* case, a text that is no number, or nothing. Values are held in          *)
(* millionths: "+1.234560E+02" is mant 1234560, exp 2, value 123456000.    *)
(***************************************************************************)
Mantissas == {0, 1234560}
Exponents == {0, 2}
Signs == {"+", "-", ""}

Tokens ==
    [kind : {"num"}, sign : Signs, lower : {FALSE}, mant : Mantissas, exp : Exponents]
    \cup [kind : {"nan", "inf"}, sign : Signs, lower : BOOLEAN, mant : {0}, exp : {0}]
    \cup [kind : {"text", "blank"}, sign : {""}, lower : {FALSE}, mant : {0}, exp : {0}]

MaxFields == 2      \* fields of a response line

Responses == SeqsUpTo(Tokens, MaxFields)

RECURSIVE Pow10(_)
Pow10(n) == IF n = 0 THEN 1 ELSE 10 * Pow10(n - 1)

\* Python float(str): a number, nan or inf (signed, any case) convert;
\* anything else raises ValueError.
float(tok) ==
    IF tok.kind = "num"
    THEN [ok |-> TRUE,
          val |-> (IF tok.sign = "-" THEN 0 - 1 ELSE 1) * tok.mant * Pow10(tok.exp)]
    ELSE IF tok.kind \in {"nan", "inf"}
    THEN [ok |-> TRUE, val |-> 0]
    ELSE [ok |-> FALSE, val |-> 0]

\* first.upper() in ("NAN", "+NAN", "-NAN", "INF", "+INF", "-INF")
IsNanInf(tok) == tok.kind \in {"nan", "inf"}

ValueResult(v) == [kind |-> "value", val |-> v]
NoneResult == [kind |-> "None", val |-> 0]

\* wt310_read_active_power_once, lines 166-211
wt310_read_active_power_once(resp, ascii_format) ==
    IF resp = <<>> THEN NoneResult                      \* `if not resp`
    ELSE IF ascii_format
    THEN LET first == resp[1]
         IN  IF float(first).ok
             THEN IF IsNanInf(first) THEN NoneResult
                  ELSE ValueResult(float(first).val)
             ELSE NoneResult                            \* except ValueError
    ELSE NoneResult                                     \* FLOAT: every path None

\* wt310_collect_latest_with_wait, lines 335-349: the v appended for a response
collect_latest_value(resp, ascii_format) ==
    IF resp = <<>> THEN NoneResult
    ELSE IF ascii_format
    THEN LET first == resp[1]
         IN  IF IsNanInf(first) THEN NoneResult
             ELSE IF float(first).ok THEN ValueResult(float(first).val)
             ELSE NoneResult                            \* except ValueError
    ELSE NoneResult

InitParse ==
    /\ JudgeIdle /\ SerialIdle /\ WtIdle /\ InspIdle /\ RoutineIdle /\ DeviceIdle /\ ChannelIdle /\ AsyncSerialIdle /\ QueryIdle /\ PollIdle /\ SyncIdle /\ LoopIdle /\ WsIdle
    /\ p_pc = "input"
    /\ p_resp \in Responses
    /\ p_ascii \in BOOLEAN
    /\ p_once = NoResult
    /\ p_latest = NoResult

ReadValue ==
    /\ p_pc = "input"
    /\ p_pc' = "read"
    /\ p_once' = wt310_read_active_power_once(p_resp, p_ascii)
    /\ p_latest' = collect_latest_value(p_resp, p_ascii)
    /\ UNCHANGED <<p_resp, p_ascii>>
    /\ FrameParse

NextParse == ReadValue

SpecParse == InitParse /\ [][NextParse]_vars

\* C14: for an ASCII response, a numeric first field yields its value, a NAN
\* or INF first field of any sign yields None, and a first field that is not
\* numeric yields an outcome that is neither a value nor None (a parse error
\* the caller can tell from no-data).
C14_ThreeOutcomes ==
    (p_pc = "read" /\ p_ascii /\ p_resp # <<>>) =>
        LET first == p_resp[1]
        IN  /\ first.kind = "num" =>
                /\ p_once = ValueResult(float(first).val)
                /\ p_latest = ValueResult(float(first).val)
            /\ first.kind \in {"nan", "inf"} =>
                /\ p_once = NoneResult
                /\ p_latest = NoneResult
            /\ first.kind \in {"text", "blank"} =>
                /\ p_once.kind \notin {"value", "None"}
                /\ p_latest.kind \notin {"value", "None"}

\* C15: a read in the binary (FLOAT) format ends with an unsupported-format
\* error: never with None or a value.
C15_FloatFormatFailsFast ==
    (p_pc = "read" /\ ~p_ascii) =>
        /\ p_once.kind \notin {"value", "None"}
        /\ p_latest.kind \notin {"value", "None"}


\* safety.py 110-198: the three safety tests and their readings, in
\* thousandths of the unit (mA, MOhm, Ohm).
leakage_current == 61

dielectric_limit == 1000

insulation_resistance == 51

insulation_limit == 1000

ground_resistance == 8160

ground_limit == 10000

test_dielectric_strength ==
    IF leakage_current <= dielectric_limit THEN "PASS" ELSE "FAIL"

test_insulation_resistance ==
    IF insulation_resistance >= insulation_limit THEN "PASS" ELSE "FAIL"

test_ground_resistance ==
    IF ground_resistance <= ground_limit THEN "PASS" ELSE "FAIL"

\* safety.py 200-205
determine_overall_result(results) ==
    IF \E test \in DOMAIN results : results[test] = "FAIL" THEN "FAIL" ELSE "PASS"

\* safety.py 90-108
execute_safety_tests ==
    LET results == [dielectric |-> test_dielectric_strength,
                    insulation |-> test_insulation_resistance,
                    ground     |-> test_ground_resistance]
    IN  [overall_result |-> determine_overall_result(results),
         results |-> results]

\* power_meter.py 183-209: what get_measurement_statistics returns, by kind:
\* the error dictionary when there is no measurement, the statistics
\* otherwise.  Both are non-empty dictionaries.
PowerResults == {"error", "stats"}

\* inspection.py 259-270.  A non-empty dictionary is true in a condition.
combine_results(power_results, safety_results) ==
    IF /\ power_results \in PowerResults
       /\ DOMAIN safety_results # {}
       /\ safety_results.overall_result = "PASS"
    THEN "PASS" ELSE "FAIL"

\* result of the last phase_completed message of phase p of session s in a
\* message sequence, "none" when there is no such message
RECURSIVE LastPhaseResult(_, _, _)
LastPhaseResult(q, s, p) ==
    IF q = <<>> THEN "none"
    ELSE LET m == q[Len(q)]
         IN  IF m.type = "phase_completed" /\ m.sid = s /\ m.phase = p
             THEN m.result
             ELSE LastPhaseResult(SubSeq(q, 1, Len(q) - 1), s, p)

QueueSize == 2

MaxEvents == 4

MaxYields == 2

ChannelEvents == 1 .. MaxEvents

message_queue_full(queue) == Len(queue) >= QueueSize

message_queue_empty(queue) == queue = <<>>

\* what put does with an event once it is carried out: room, or wait for room
\* ("blocking": the calling thread waits inside put; "coroutine": the
\* coroutine that put returned is suspended)
PutCarriedOut(e) ==
    IF message_queue_full(ch_queue)
    THEN /\ ch_waiting' = e
         /\ loop_blocked' = (ch_kind = "blocking")
         /\ UNCHANGED ch_queue
    ELSE /\ ch_queue' = message_queue_put(ch_queue, e)
         /\ UNCHANGED <<ch_waiting, loop_blocked>>

\* measurement_service.py 43, 67, 95: `message_queue.put({...})` as a plain
\* call inside a coroutine.  A put that is a coroutine function returns a
\* coroutine object that is thrown away and never runs.
Put(e) ==
    /\ ~loop_blocked
    /\ ch_waiting = 0
    /\ e = ch_next
    /\ ch_next' = ch_next + 1
    /\ ch_published' = Append(ch_published, e)
    /\ IF ch_kind = "blocking"
       THEN PutCarriedOut(e)
       ELSE UNCHANGED <<ch_queue, ch_waiting, loop_blocked>>
    /\ UNCHANGED <<ch_kind, ch_delivered, ch_raised>>
    /\ FrameChannel

\* inspection.py 42-49: `await message_queue.put(json.dumps(message))`.  A put
\* that blocks the thread returns None when it is done, and `await None`
\* raises TypeError.  A suspended put coroutine is resumed when a get takes an
\* event off the queue, which the consumer of a coroutine queue never does
\* (SseYield).
AwaitPut(e) ==
    /\ ~loop_blocked
    /\ ch_waiting = 0
    /\ e = ch_next
    /\ ch_next' = ch_next + 1
    /\ ch_published' = Append(ch_published, e)
    /\ PutCarriedOut(e)
    /\ ch_raised' = IF ch_kind = "blocking" /\ ~message_queue_full(ch_queue)
                    THEN ch_raised + 1 ELSE ch_raised
    /\ UNCHANGED <<ch_kind, ch_delivered>>
    /\ FrameChannel

\* endpoints/inspection.py 60-71: one turn of sse_generator's loop with a
\* message in the queue (with none it sleeps and changes nothing).  get is
\* called without await: a get that is a coroutine function returns a
\* coroutine object, which is what is yielded, and takes nothing off the queue.
SseYield ==
    /\ ~loop_blocked
    /\ ~message_queue_empty(ch_queue)
    /\ IF ch_kind = "blocking"
       THEN /\ ch_delivered' = Append(ch_delivered, Head(ch_queue))
            /\ ch_queue' = Tail(ch_queue)
       ELSE /\ Len(ch_delivered) < MaxYields
            /\ ch_delivered' = Append(ch_delivered, 0)
            /\ UNCHANGED ch_queue
    /\ UNCHANGED <<ch_kind, ch_published, ch_waiting, loop_blocked, ch_raised, ch_next>>
    /\ FrameChannel

InitChannel ==
    /\ JudgeIdle /\ SerialIdle /\ WtIdle /\ InspIdle /\ RoutineIdle /\ DeviceIdle /\ ParseIdle /\ AsyncSerialIdle /\ QueryIdle /\ PollIdle /\ SyncIdle /\ LoopIdle /\ WsIdle
    /\ ch_kind \in {"blocking", "coroutine"}
    /\ ch_queue = <<>>
    /\ ch_published = <<>>
    /\ ch_delivered = <<>>
    /\ ch_waiting = 0
    /\ loop_blocked = FALSE
    /\ ch_raised = 0
    /\ ch_next = 1

NextChannel ==
    \/ \E e \in ChannelEvents : Put(e)
    \/ \E e \in ChannelEvents : AwaitPut(e)
    \/ SseYield

SpecChannel == InitChannel /\ [][NextChannel]_vars

\* C17: every event handed to put has been yielded by sse_generator, is in the
\* queue, or is held by the publisher that waits for room, each once and in
\* the order of emission; and the event loop, which runs the consumer, is not
\* blocked by a put, so that a waiting publisher's event can still be drained.
C17_EventsDeliveredOnceInOrder ==
    /\ ch_published = ch_delivered \o ch_queue
                      \o (IF ch_waiting # 0 THEN <<ch_waiting>> ELSE <<>>)
    /\ ~loop_blocked


\* session s has been reported as ended: its session-complete message is on
\* the queue, or the task started for it has ended
SessionTerminal(s) ==
    \/ \E k \in DOMAIN mq :
          mq[k].type = "measurement_session_completed" /\ mq[k].sid = s
    \/ tk_pc[s] \in {"done", "error", "cancelled"}

\* C18: the record of a session is handed to the database once, and not
\* before the session has ended; and a task in which the save raised has not
\* ended in the error handler because of it.
C18_SavedOnceAfterTerminal ==
    /\ \A s \in Scans : save_calls[s] <= 1
    /\ \A s \in Scans : save_calls[s] > 0 => SessionTerminal(s)
    /\ \A t \in save_raised : tk_pc[t] # "error"


AliveTasks == {t \in Scans : Alive(t)}

\* C19: at most one inspection task is executing (created and neither ended
\* nor cancelled) at any time, whatever the order of start-listening, scan
\* and stop requests.
C19_AtMostOneRunExecuting ==
    Cardinality(AliveTasks) <= 1


\* C20: no call of connect_device is stuck for ever: no thread waits inside
\* connect_device (in its call of disconnect_device) for the lock that the
\* same call holds.
C20_ConnectNeverBlocksOnOwnLock ==
    \A t \in Threads : ~(th_pc[t] = "cd_blocked" /\ lock = t)


\* ---------------------------------------------------------------------------
\* services/serial.py: the coroutines send_command, read_data and
\* read_power_meter_data of SerialCommunicationService, run by one event loop.
\* self.lock is a threading.Lock taken with `with self.lock:` by the loop
\* thread itself; simulation_mode is False (line 24).
\* ---------------------------------------------------------------------------

Delays == {0, 1}

power_meter_id == 1

\* `with self.lock:` while a suspended coroutine holds the lock: the loop
\* thread waits in acquire, and no coroutine runs any more.
LoopThreadBlocks(c) ==
    /\ co_pc' = [co_pc EXCEPT ![c] = "blocked"]
    /\ loop_waits' = c
    /\ UNCHANGED <<as_lock, co_ret, co_pm>>

AsyncReturn(c, value) ==
    /\ co_pc' = [co_pc EXCEPT ![c] = "idle"]
    /\ co_ret' = [co_ret EXCEPT ![c] = value]

\* serial.py 117-152, up to `await asyncio.sleep(delay)` or the return
AsyncSendCommand(c, d, delay) ==
    /\ loop_waits = 0
    /\ co_pc[c] = "idle"
    /\ co_calls < MaxAsyncCalls
    /\ co_calls' = co_calls + 1
    /\ IF as_lock # 0
       THEN LoopThreadBlocks(c)
       ELSE IF as_connections[d] = "open" /\ delay > 0
       THEN /\ as_lock' = c
            /\ co_pc' = [co_pc EXCEPT ![c] = "sc_sleep"]
            /\ UNCHANGED <<co_ret, co_pm, loop_waits>>
       ELSE /\ AsyncReturn(c, IF as_connections[d] = "open" THEN "True" ELSE "False")
            /\ UNCHANGED <<as_lock, co_pm, loop_waits>>
    /\ UNCHANGED as_connections
    /\ FrameAsyncSerial

\* serial.py 154-196, up to `await loop.run_in_executor(...)` or the return
read_data_begins(c, d) ==
    IF as_connections[d] = "open"
    THEN /\ as_lock' = c
         /\ co_pc' = [co_pc EXCEPT ![c] = "rd_executor"]
         /\ UNCHANGED co_ret
    ELSE /\ AsyncReturn(c, "None")
         /\ as_lock' = 0

\* serial.py 146-148: the sleep of send_command is over; the lock is released
\* and True returned; inside read_power_meter_data (lines 234-235) read_data
\* follows at once
AsyncSendWakes(c) ==
    /\ loop_waits = 0
    /\ co_pc[c] = "sc_sleep"
    /\ IF co_pm[c]
       THEN /\ read_data_begins(c, power_meter_id)
            /\ co_pm' = [co_pm EXCEPT ![c] = as_connections[power_meter_id] = "open"]
       ELSE /\ AsyncReturn(c, "True")
            /\ as_lock' = 0
            /\ UNCHANGED co_pm
    /\ UNCHANGED <<as_connections, co_calls, loop_waits>>
    /\ FrameAsyncSerial

\* serial.py 154-196
AsyncReadData(c, d) ==
    /\ loop_waits = 0
    /\ co_pc[c] = "idle"
    /\ co_calls < MaxAsyncCalls
    /\ co_calls' = co_calls + 1
    /\ IF as_lock # 0
       THEN LoopThreadBlocks(c)
       ELSE /\ read_data_begins(c, d)
            /\ UNCHANGED <<co_pm, loop_waits>>
    /\ UNCHANGED as_connections
    /\ FrameAsyncSerial

\* serial.py 172-186: the executor's readline is done
AsyncReadDone(c, data) ==
    /\ loop_waits = 0
    /\ co_pc[c] = "rd_executor"
    /\ AsyncReturn(c, data)
    /\ as_lock' = 0
    /\ co_pm' = [co_pm EXCEPT ![c] = FALSE]
    /\ UNCHANGED <<as_connections, co_calls, loop_waits>>
    /\ FrameAsyncSerial

\* serial.py 219-236, up to the sleep inside its send_command (default delay
\* 0.1) or the return
AsyncReadPowerMeterData(c) ==
    /\ loop_waits = 0
    /\ co_pc[c] = "idle"
    /\ co_calls < MaxAsyncCalls
    /\ co_calls' = co_calls + 1
    /\ IF as_lock # 0
       THEN LoopThreadBlocks(c)                 \* is_connected, line 102
       ELSE IF as_connections[power_meter_id] # "open"
       THEN /\ AsyncReturn(c, "None")
            /\ UNCHANGED <<as_lock, co_pm, loop_waits>>
       ELSE /\ as_lock' = c
            /\ co_pc' = [co_pc EXCEPT ![c] = "sc_sleep"]
            /\ co_pm' = [co_pm EXCEPT ![c] = TRUE]
            /\ UNCHANGED <<co_ret, loop_waits>>
    /\ UNCHANGED as_connections
    /\ FrameAsyncSerial

InitAsyncSerial ==
    /\ JudgeIdle /\ SerialIdle /\ WtIdle /\ InspIdle /\ RoutineIdle /\ DeviceIdle /\ ParseIdle /\ ChannelIdle /\ QueryIdle /\ PollIdle /\ SyncIdle /\ LoopIdle /\ WsIdle
    /\ as_connections \in [Devices -> {"absent", "open", "closed"}]
    /\ as_lock = 0
    /\ co_pc = [c \in Coros |-> "idle"]
    /\ co_ret = [c \in Coros |-> "none"]
    /\ co_pm = [c \in Coros |-> FALSE]
    /\ co_calls = 0
    /\ loop_waits = 0

NextAsyncSerial ==
    \/ \E c \in Coros, d \in Devices, delay \in Delays : AsyncSendCommand(c, d, delay)
    \/ \E c \in Coros : AsyncSendWakes(c)
    \/ \E c \in Coros, d \in Devices : AsyncReadData(c, d)
    \/ \E c \in Coros, data \in {"data", "None"} : AsyncReadDone(c, data)
    \/ \E c \in Coros : AsyncReadPowerMeterData(c)

SpecAsyncSerial == InitAsyncSerial /\ [][NextAsyncSerial]_vars

\* C21: the event-loop thread never waits in `with self.lock` for a lock that
\* a suspended coroutine holds: a state in which no coroutine, the holder
\* included, can run again and no call returns.
C21_LoopNeverBlockedOnLock ==
    loop_waits = 0


\* ---------------------------------------------------------------------------
\* wt310_power_meter.py 19-107: _write_scpi, _read_line and _query_scpi.
\* ---------------------------------------------------------------------------

max_retries == 3

\* What one _read_line call can meet on the port:
\*   "line"             a non-empty line
\*   "empty"            time-out with nothing read, or a blank line
\*   "serial_exception" serial.SerialException from ser.read(1), nothing read yet
\*   "partial"          serial.SerialException from ser.read(1) after some bytes
\*   "exception"        any exception outside the inner loop (ser.in_waiting,
\*                      ser.read(n), ...)
ReadOutcomes == {"line", "empty", "serial_exception", "partial", "exception"}

TransportErrors == {"serial_exception", "partial", "exception"}

\* wt310_power_meter.py 29-87: the string _read_line returns.  The inner
\* except (line 72) breaks out of the loop and the bytes read so far are
\* returned; the outer except (line 85) returns "".
read_line(outcome) ==
    IF outcome = "line" THEN "line"
    ELSE IF outcome = "partial" THEN "partial"
    ELSE "empty"

\* wt310_power_meter.py 90-92: the command is written once and 0.2 s slept;
\* an exception of ser.write leaves _query_scpi.
QueryWrite(ok) ==
    /\ q_pc \in {"idle", "returned", "raised"}
    /\ q_n < MaxQueries
    /\ q_n' = q_n + 1
    /\ q_pc' = IF ok THEN "written" ELSE "raised"
    /\ q_outcomes' = <<>>
    /\ q_result' = "none"
    /\ q_backoffs' = 0
    /\ FrameQuery

\* wt310_power_meter.py 95-104: one attempt of the loop, up to the return or
\* to the sleep before the next attempt
QueryReadLine(outcome) ==
    /\ q_pc = "written"
    /\ Len(q_outcomes) < max_retries
    /\ q_outcomes' = Append(q_outcomes, outcome)
    /\ LET response == read_line(outcome)
           attempt == Len(q_outcomes)
       IN  IF response # "empty"
           THEN /\ q_pc' = "returned"
                /\ q_result' = response
           ELSE IF attempt < max_retries - 1
           THEN /\ q_pc' = "backoff"
                /\ UNCHANGED q_result
           ELSE /\ q_pc' = "returned"      \* lines 106-107
                /\ q_result' = "empty"
    /\ UNCHANGED <<q_backoffs, q_n>>
    /\ FrameQuery

\* wt310_power_meter.py 103-104: time.sleep(0.1) is over
QueryBackoff ==
    /\ q_pc = "backoff"
    /\ q_pc' = "written"
    /\ q_backoffs' = q_backoffs + 1
    /\ UNCHANGED <<q_outcomes, q_result, q_n>>
    /\ FrameQuery

InitQuery ==
    /\ JudgeIdle /\ SerialIdle /\ WtIdle /\ InspIdle /\ RoutineIdle /\ DeviceIdle /\ ParseIdle /\ ChannelIdle /\ AsyncSerialIdle /\ PollIdle /\ SyncIdle /\ LoopIdle /\ WsIdle
    /\ q_pc = "idle"
    /\ q_outcomes = <<>>
    /\ q_result = "none"
    /\ q_backoffs = 0
    /\ q_n = 0

NextQuery ==
    \/ \E ok \in BOOLEAN : QueryWrite(ok)
    \/ \E outcome \in ReadOutcomes : QueryReadLine(outcome)
    \/ QueryBackoff

SpecQuery == InitQuery /\ [][NextQuery]_vars

\* C22: an exchange makes at most max_retries read attempts with one backoff
\* between two attempts; every attempt but the last met an empty response;
\* and an attempt that met a transport error is the last one and the
\* exchange has raised.
C22_RetryOnlyOnEmptyResponse ==
    /\ Len(q_outcomes) <= max_retries
    /\ q_backoffs <= Len(q_outcomes)
    /\ \A k \in DOMAIN q_outcomes :
          k < Len(q_outcomes) => q_outcomes[k] = "empty"
    /\ \A k \in DOMAIN q_outcomes :
          q_outcomes[k] \in TransportErrors
          => (k = Len(q_outcomes) /\ q_pc = "raised")


\* C23: a phase whose setup had an exchange without response is not measured
\* (its collection never runs) and its result is not a good one.
C23_UnansweredSetupFailsPhase ==
    \A i \in wt_unanswered :
        /\ ~(wt_i = i /\ wt_pc = "collect")
        /\ wt_results[i].status # "ok"


StoredValues(vs) == {k \in DOMAIN vs : vs[k] # None}

\* C24: the sample sequence of a phase holds, read for read, what the read
\* returned: None where it returned no value (never 0 in its place), so that
\* the stored values that are not None are as many as the reads that
\* returned a value.
C24_NonePreservedInSamples ==
    /\ Len(wt_vs) = Len(wt_reads)
    /\ \A k \in DOMAIN wt_reads : wt_reads[k] = None => wt_vs[k] = None
    /\ Cardinality(StoredValues(wt_vs)) = Cardinality(StoredValues(wt_reads))


\* C25: a phase none of whose reads returned a value is not reported as PASS,
\* neither by the phase result of the measurement service nor by the step
\* result of the inspection service.
C25_NoDataNeverPasses ==
    (j_pc = "judged" /\ ValidSamples(j_reads) = <<>>)
    => (j_phase_result # "PASS" /\ j_step_result # "PASS")


\* ---------------------------------------------------------------------------
\* wt310_collect_for with measurement_method "polling" (wt310_power_meter.py
\* 233-294).  Time is counted in ticks from t0 and passes in time.sleep and
\* in the read (wt310_read_active_power_once with the retries of
\* _query_scpi); the statements between them take no time.
\* ---------------------------------------------------------------------------

Latencies == 0 .. MaxLatency

\* lines 264-291: one turn of the loop that reads: the duration has not
\* elapsed, the loop sleeps until next_t if that lies ahead, reads (the read
\* takes `latency`), stores the elapsed time and moves next_t on
PollRead(latency) ==
    /\ pl_pc = "loop"
    /\ pl_now < pl_duration
    /\ LET read_at == IF pl_now < pl_next_t THEN pl_next_t ELSE pl_now
           elapsed == read_at + latency
       IN  /\ pl_now' = elapsed
           /\ pl_ts' = Append(pl_ts, elapsed)
    /\ pl_next_t' = pl_next_t + pl_interval
    /\ UNCHANGED <<pl_pc, pl_duration, pl_interval>>
    /\ FramePoll

\* lines 265-267: the duration has elapsed at the head of the loop
PollBreak ==
    /\ pl_pc = "loop"
    /\ pl_now >= pl_duration
    /\ pl_pc' = "done"
    /\ UNCHANGED <<pl_duration, pl_interval, pl_now, pl_next_t, pl_ts>>
    /\ FramePoll

InitPoll ==
    /\ JudgeIdle /\ SerialIdle /\ WtIdle /\ InspIdle /\ RoutineIdle /\ DeviceIdle /\ ParseIdle /\ ChannelIdle /\ AsyncSerialIdle /\ QueryIdle /\ SyncIdle /\ LoopIdle /\ WsIdle
    /\ pl_pc = "loop"
    /\ pl_duration \in 1 .. MaxDuration
    /\ pl_interval \in 1 .. MaxInterval
    /\ pl_now = 0
    /\ pl_next_t = 0
    /\ pl_ts = <<>>

NextPoll ==
    \/ \E latency \in Latencies : PollRead(latency)
    \/ PollBreak

SpecPoll == InitPoll /\ [][NextPoll]_vars

\* ceil(D / I)
CeilDiv(D, I) == (D + I - 1) \div I

\* C26: the elapsed times of the samples never decrease and none exceeds
\* D + I; and a finished polling collection holds between ceil(D/I) - 1 and
\* ceil(D/I) + 1 samples.
C26_PollingSampleCount ==
    /\ \A k \in DOMAIN pl_ts :
          /\ pl_ts[k] <= pl_duration + pl_interval
          /\ k > 1 => pl_ts[k - 1] <= pl_ts[k]
    /\ pl_pc = "done" =>
          /\ Len(pl_ts) >= CeilDiv(pl_duration, pl_interval) - 1
          /\ Len(pl_ts) <= CeilDiv(pl_duration, pl_interval) + 1


\* ---------------------------------------------------------------------------
\* Collection with the event-synchronized method: wt310_collect_latest_with_wait
\* (wt310_power_meter.py 299-361), and wt310_collect_for with
\* measurement_method = "synchronized" (239-261), which is what
\* wt310_sequential_inspection calls (417-425).  sy_wire holds the commands:
\* "FILTER" :STATUS:FILTER1 FALL, "EESR" :STATUS:EESR?, "WAIT"
\* :COMMUNICATE:WAIT 1, "VALUE" :NUMERIC:NORMAL:VALUE?.
\* ---------------------------------------------------------------------------

\* lines 319-321: filter and clear before the loop
SyncClearBeforeLoop ==
    /\ sy_entry = "collect_latest_with_wait"
    /\ sy_pc = "begin"
    /\ sy_wire' = sy_wire \o <<"FILTER", "EESR">>
    /\ sy_pc' = "loop"
    /\ UNCHANGED <<sy_entry, sy_vs>>
    /\ FrameSync

\* lines 328-330
SyncWait ==
    /\ sy_entry = "collect_latest_with_wait"
    /\ sy_pc = "loop"
    /\ Len(sy_vs) < MaxSyncIters
    /\ sy_wire' = Append(sy_wire, "WAIT")
    /\ sy_pc' = "waited"
    /\ UNCHANGED <<sy_entry, sy_vs>>
    /\ FrameSync

\* lines 331-332
SyncQuery ==
    /\ sy_entry = "collect_latest_with_wait"
    /\ sy_pc = "waited"
    /\ sy_wire' = Append(sy_wire, "VALUE")
    /\ sy_pc' = "queried"
    /\ UNCHANGED <<sy_entry, sy_vs>>
    /\ FrameSync

\* lines 333-355: the register is cleared, the response parsed and stored
SyncClearAndStore(v) ==
    /\ sy_entry = "collect_latest_with_wait"
    /\ sy_pc = "queried"
    /\ sy_wire' = Append(sy_wire, "EESR")
    /\ sy_vs' = Append(sy_vs, v)
    /\ sy_pc' = "loop"
    /\ UNCHANGED sy_entry
    /\ FrameSync

\* lines 19-23 and 359-361: a write raises; the except returns [], []
SyncWriteRaises ==
    /\ sy_entry = "collect_latest_with_wait"
    /\ sy_pc \in {"begin", "loop", "waited", "queried"}
    /\ sy_pc' = "failed"
    /\ sy_vs' = <<>>
    /\ UNCHANGED <<sy_entry, sy_wire>>
    /\ FrameSync

\* lines 241-261: one turn of the synchronized loop of wt310_collect_for:
\* wt310_read_active_power_once sends the value query; None is stored as 0.0
CollectForSynchronizedRead(v) ==
    /\ sy_entry = "collect_for"
    /\ sy_pc \in {"begin", "loop"}
    /\ Len(sy_vs) < MaxSyncIters
    /\ sy_wire' = Append(sy_wire, "VALUE")
    /\ sy_vs' = Append(sy_vs, IF v = None THEN 0 ELSE v)
    /\ sy_pc' = "loop"
    /\ UNCHANGED sy_entry
    /\ FrameSync

\* lines 243-244 and 327: the duration has elapsed
SyncDurationElapsed ==
    /\ sy_pc = "loop" \/ (sy_entry = "collect_for" /\ sy_pc = "begin")
    /\ sy_pc' = "done"
    /\ UNCHANGED <<sy_entry, sy_wire, sy_vs>>
    /\ FrameSync

InitSync ==
    /\ JudgeIdle /\ SerialIdle /\ WtIdle /\ InspIdle /\ RoutineIdle /\ DeviceIdle /\ ParseIdle /\ ChannelIdle /\ AsyncSerialIdle /\ QueryIdle /\ PollIdle /\ LoopIdle /\ WsIdle
    /\ sy_entry \in {"collect_latest_with_wait", "collect_for"}
    /\ sy_pc = "begin"
    /\ sy_wire = <<>>
    /\ sy_vs = <<>>

NextSync ==
    \/ SyncClearBeforeLoop
    \/ SyncWait
    \/ SyncQuery
    \/ \E v \in WtValues \cup {None} : SyncClearAndStore(v)
    \/ SyncWriteRaises
    \/ \E v \in WtValues \cup {None} : CollectForSynchronizedRead(v)
    \/ SyncDurationElapsed

SpecSync == InitSync /\ [][NextSync]_vars

\* C27: on the wire every value query comes right after a wait-for-data-ready
\* command, every wait comes right after a clear of the event register (the
\* one before the loop or the one that ends the iteration before), and what
\* follows a value query is the register clear.
C27_WaitQueryClearOrder ==
    \A k \in DOMAIN sy_wire :
        /\ sy_wire[k] = "VALUE" => (k > 1 /\ sy_wire[k - 1] = "WAIT")
        /\ sy_wire[k] = "WAIT" => (k > 1 /\ sy_wire[k - 1] = "EESR")
        /\ (sy_wire[k] = "VALUE" /\ k < Len(sy_wire)) => sy_wire[k + 1] = "EESR"


\* ---------------------------------------------------------------------------
\* Where the instrument exchanges of a session run.  The orchestrating
\* coroutines and the handlers of other requests share the event-loop thread;
\* a coroutine that calls a blocking function keeps the thread until the
\* function returns.
\* ---------------------------------------------------------------------------

\* the blocking calls made directly by a coroutine:
\*   "measure_all"  power_meter.py 165-167, in start_continuous_measurement
\*                  (_write_scpi and _read_line, lines 40-63)
\*   "serial_write" serial.py 136-138, connection.write in send_command
LoopCalls == {"measure_all", "serial_write"}

\* inspection_routine.py 211-215 with serial_communication.py 184-193:
\* send_command_async hands send_command to the executor and awaits it
SendCommandAsyncBegin ==
    /\ io_thread = "none"
    /\ io_exchanges < MaxExchanges
    /\ io_exchanges' = io_exchanges + 1
    /\ io_thread' = "worker"
    /\ io_source' = "send_command_async"
    /\ UNCHANGED lp_served
    /\ FrameLoop

\* the executor's send_command has returned; the awaiting coroutine goes on
SendCommandAsyncEnd ==
    /\ io_thread = "worker"
    /\ io_thread' = "none"
    /\ UNCHANGED <<io_source, io_exchanges, lp_served>>
    /\ FrameLoop

\* a coroutine enters a blocking write/read itself
LoopCallBegin(call) ==
    /\ io_thread = "none"
    /\ io_exchanges < MaxExchanges
    /\ io_exchanges' = io_exchanges + 1
    /\ io_thread' = "loop"
    /\ io_source' = call
    /\ UNCHANGED lp_served
    /\ FrameLoop

\* the blocking call returns (answer, or time-out of the port)
LoopCallEnd ==
    /\ io_thread = "loop"
    /\ io_thread' = "none"
    /\ UNCHANGED <<io_source, io_exchanges, lp_served>>
    /\ FrameLoop

\* the event loop runs the handler of another request (stop, status, SSE):
\* only when its thread is not inside a blocking call
ServeRequest ==
    /\ io_thread # "loop"
    /\ lp_served < MaxServed
    /\ lp_served' = lp_served + 1
    /\ UNCHANGED <<io_thread, io_source, io_exchanges>>
    /\ FrameLoop

InitLoop ==
    /\ JudgeIdle /\ SerialIdle /\ WtIdle /\ InspIdle /\ RoutineIdle /\ DeviceIdle /\ ParseIdle /\ ChannelIdle /\ AsyncSerialIdle /\ QueryIdle /\ PollIdle /\ SyncIdle /\ WsIdle
    /\ io_thread = "none"
    /\ io_source = "none"
    /\ io_exchanges = 0
    /\ lp_served = 0

NextLoop ==
    \/ SendCommandAsyncBegin
    \/ SendCommandAsyncEnd
    \/ \E call \in LoopCalls : LoopCallBegin(call)
    \/ LoopCallEnd
    \/ ServeRequest

SpecLoop == InitLoop /\ [][NextLoop]_vars

\* C28: an exchange in progress runs on a worker thread, never on the
\* event-loop thread, and while it is in progress the loop can serve another
\* request.
C28_ExchangesOffTheLoop ==
    io_thread # "none" =>
        /\ io_thread = "worker"
        /\ lp_served < MaxServed => ENABLED ServeRequest


\* sessions whose task has ended: completed, failed or stopped
EndedSessions == {s \in Scans : tk_pc[s] \in {"done", "error", "cancelled"}}

\* C29: whenever the routine service is back in Idle with no current session
\* (after completion, after an error or after a stop), the measurement
\* service holds no active-measurement entry for a session that has ended.
C29_IdleLeavesNoActiveMeasurement ==
    (rt_status = "IDLE" /\ current_session = 0) =>
        \A s \in EndedSessions : ~active_measurements[s].present


\* ---------------------------------------------------------------------------
\* The two WebSocket connection managers: the one of the endpoints module
\* (api/v1/endpoints/websocket.py 9-32) and the one of the services
\* (websocket/connection_manager.py 6-66).  Code between two awaits is one
\* step; broadcast is suspended inside each send_text.
\* ---------------------------------------------------------------------------
Conns == 1..MaxConns

WsManagers == {"endpoints", "connection_manager"}

\* list.remove(c) for an element that is in the list
ListRemove(l, c) == SelectSeq(l, LAMBDA x : x # c)

\* websocket.py 13-15 / connection_manager.py 15-18: accept and append
WsConnect(c) ==
    /\ ws_socket[c] = "none"
    /\ ws_socket' = [ws_socket EXCEPT ![c] = "open"]
    /\ active_connections' = Append(active_connections, c)
    /\ UNCHANGED <<ws_manager, bc_pc, bc_idx, bc_cur, disconnected, bc_start,
                   bc_attempted, bc_succeeded, bc_left, bc_count, dc_raised>>
    /\ FrameWs

\* the peer goes away: a later send_text on the socket raises and the
\* endpoint's receive raises WebSocketDisconnect
ClientCloses(c) ==
    /\ ws_socket[c] = "open"
    /\ ws_socket' = [ws_socket EXCEPT ![c] = "closed"]
    /\ UNCHANGED <<ws_manager, active_connections, bc_pc, bc_idx, bc_cur,
                   disconnected, bc_start, bc_attempted, bc_succeeded, bc_left,
                   bc_count, dc_raised>>
    /\ FrameWs

\* websocket.py 17-18 (called from the finally of the endpoint, 65-66) and
\* connection_manager.py 26-29
WsDisconnect(c) ==
    /\ ws_socket[c] = "closed"
    /\ ws_socket' = [ws_socket EXCEPT ![c] = "gone"]
    /\ IF c \in SeqToSet(active_connections)
       THEN /\ active_connections' = ListRemove(active_connections, c)
            /\ UNCHANGED dc_raised
       ELSE /\ UNCHANGED active_connections
            \* list.remove(x) with x not in the list: ValueError; the
            \* services' manager tests membership first
            /\ dc_raised' = (dc_raised \/ ws_manager = "endpoints")
    /\ bc_left' = bc_left \cup {c}
    /\ UNCHANGED <<ws_manager, bc_pc, bc_idx, bc_cur, disconnected, bc_start,
                   bc_attempted, bc_succeeded, bc_count>>
    /\ FrameWs

\* connection_manager.py 63-66: the clean-up after the loop (the endpoints'
\* manager has none)
BroadcastCleanup(l, dis) ==
    IF ws_manager = "connection_manager"
    THEN SelectSeq(l, LAMBDA x : x \notin SeqToSet(dis))
    ELSE l

\* the for statement asks its list iterator for the next element: the
\* iterator holds an index into the list as it is now
BroadcastNext(l, idx, dis) ==
    IF idx < Len(l)
    THEN /\ bc_pc' = "sending"
         /\ bc_idx' = idx + 1
         /\ bc_cur' = l[idx + 1]
         /\ bc_attempted' = bc_attempted \cup {l[idx + 1]}
         /\ active_connections' = l
         /\ disconnected' = dis
    ELSE /\ bc_pc' = "done"
         /\ bc_idx' = idx
         /\ bc_cur' = 0
         /\ UNCHANGED bc_attempted
         /\ active_connections' = BroadcastCleanup(l, dis)
         /\ disconnected' = <<>>

\* websocket.py 23-26 / connection_manager.py 53-58: broadcast is called and
\* runs up to its first send_text
BroadcastBegin ==
    /\ bc_pc \in {"idle", "done"}
    /\ bc_count < MaxBroadcasts
    /\ bc_count' = bc_count + 1
    /\ bc_start' = SeqToSet(active_connections)
    /\ bc_succeeded' = {}
    /\ bc_left' = {}
    /\ IF active_connections = <<>>
       THEN /\ bc_pc' = "done"
            /\ bc_idx' = 0
            /\ bc_cur' = 0
            /\ bc_attempted' = {}
            /\ disconnected' = <<>>
            /\ UNCHANGED active_connections
       ELSE /\ bc_pc' = "sending"
            /\ bc_idx' = 1
            /\ bc_cur' = active_connections[1]
            /\ bc_attempted' = {active_connections[1]}
            /\ disconnected' = <<>>
            /\ UNCHANGED active_connections
    /\ UNCHANGED <<ws_manager, ws_socket, dc_raised>>
    /\ FrameWs

\* websocket.py 26-32 / connection_manager.py 58-66: the awaited send_text
\* returns or raises; broadcast goes on to its next send_text or to its end
BroadcastSendReturns ==
    /\ bc_pc = "sending"
    /\ LET c == bc_cur
           ok == ws_socket[c] = "open"
           l == IF ok \/ ws_manager = "connection_manager"
                THEN active_connections
                ELSE ListRemove(active_connections, c)   \* lines 29-32
           dis == IF ~ok /\ ws_manager = "connection_manager"
                  THEN Append(disconnected, c)           \* line 61
                  ELSE disconnected
       IN  /\ bc_succeeded' = IF ok THEN bc_succeeded \cup {c} ELSE bc_succeeded
           /\ BroadcastNext(l, bc_idx, dis)
    /\ UNCHANGED <<ws_manager, ws_socket, bc_start, bc_left, bc_count, dc_raised>>
    /\ FrameWs

InitWs ==
    /\ JudgeIdle /\ SerialIdle /\ WtIdle /\ InspIdle /\ RoutineIdle /\ DeviceIdle /\ ParseIdle /\ ChannelIdle /\ AsyncSerialIdle /\ QueryIdle /\ PollIdle /\ SyncIdle /\ LoopIdle
    /\ ws_manager \in WsManagers
    /\ active_connections = <<>>
    /\ ws_socket = [c \in Conns |-> "none"]
    /\ bc_pc = "idle"
    /\ bc_idx = 0
    /\ bc_cur = 0
    /\ disconnected = <<>>
    /\ bc_start = {}
    /\ bc_attempted = {}
    /\ bc_succeeded = {}
    /\ bc_left = {}
    /\ bc_count = 0
    /\ dc_raised = FALSE

NextWs ==
    \/ \E c \in Conns : WsConnect(c)
    \/ \E c \in Conns : ClientCloses(c)
    \/ \E c \in Conns : WsDisconnect(c)
    \/ BroadcastBegin
    \/ BroadcastSendReturns

SpecWs == InitWs /\ [][NextWs]_vars

\* C30: when a broadcast has ended, every connection that was active when it
\* started (and was not disconnected by its own handler since) has had a
\* delivery attempt, and is in the active list exactly if its send succeeded;
\* and no disconnect has raised.
C30_BroadcastReachesAllAndCleansUp ==
    /\ bc_pc = "done" =>
          \A c \in bc_start \ bc_left :
              /\ c \in bc_attempted
              /\ (c \in SeqToSet(active_connections)) <=> (c \in bc_succeeded)
    /\ ~dc_raised

=============================================================================
